---- MODULE Spec2Model ----
(***************************************************************************)
(* A model of summer_model.py: EpiModel and StratifiedModel.               *)
(*                                                                         *)
(* Strings are sequences of one-character strings, so that find_stem,      *)
(* startswith and the "X" marker parsing are computed as the code computes *)
(* them.  Numbers are exact rationals <<numerator, denominator>>.          *)
(* A Python dict whose keys are stratum labels is a sequence of            *)
(* <<key, value>> pairs looked up with Python's == (PyEq).                 *)
(***************************************************************************)
EXTENDS Integers, Sequences, FiniteSets, TLC

(* ------------------------------------------------------------------ *)
(* bounds of the model                                                 *)
(* ------------------------------------------------------------------ *)
\* the most stratify calls made on one model
MaxStrata == 2
\* the most right-hand-side evaluations made in one run
MaxEvals == 1
\* the largest time handed to a right-hand-side evaluation
MaxTime == 1

(* ------------------------------------------------------------------ *)
(* exact rational arithmetic                                           *)
(* ------------------------------------------------------------------ *)
Abs(n) == IF n < 0 THEN -n ELSE n

RECURSIVE Gcd(_, _)
Gcd(a, b) == IF b = 0 THEN a ELSE Gcd(b, a % b)

\* the pair <<n, d>> (d # 0) in lowest terms with a positive denominator
LowestTerms[p \in Int \X Int] ==
    LET g == Gcd(Abs(p[1]), Abs(p[2]))
        s == IF p[2] < 0 THEN -1 ELSE 1
    IN  <<(s * p[1]) \div g, (s * p[2]) \div g>>

\* the rational n/d
Rat(n, d) == LowestTerms[<<n, d>>]

R(n) == <<n, 1>>
RAdd(a, b) == Rat(a[1] * b[2] + b[1] * a[2], a[2] * b[2])
RSub(a, b) == Rat(a[1] * b[2] - b[1] * a[2], a[2] * b[2])
RMul(a, b) == Rat(a[1] * b[1], a[2] * b[2])
\* a / b, for b # 0 (the callers raise ZeroDivisionError before dividing by 0)
RDiv(a, b) == Rat(a[1] * b[2], a[2] * b[1])
RIsZero(a) == a[1] = 0
RGt(a, b) == a[1] * b[2] > b[1] * a[2]

RECURSIVE RSum(_)
RSum(s) ==
    IF Len(s) = 0 THEN R(0)
    ELSE IF Len(s) = 1 THEN s[1]
    ELSE RAdd(RSum(SubSeq(s, 1, Len(s) \div 2)), RSum(SubSeq(s, Len(s) \div 2 + 1, Len(s))))

(* ------------------------------------------------------------------ *)
(* sequences and strings                                               *)
(* ------------------------------------------------------------------ *)
Range(s) == {s[i] : i \in 1..Len(s)}
InSeq(x, s) == \E i \in 1..Len(s) : s[i] = x
\* list.index(x): the first position of x (1-based), 0 when absent (ValueError)
IndexOf(s, x) ==
    IF InSeq(x, s) THEN CHOOSE i \in 1..Len(s) : s[i] = x /\ \A j \in 1..(i - 1) : s[j] # x
    ELSE 0

\* str.startswith
StartsWith(s, p) == Len(p) <= Len(s) /\ SubSeq(s, 1, Len(p)) = p
\* the "in" operator on two strings: p is a substring of s
Contains(s, p) == \E i \in 0..(Len(s) - Len(p)) : SubSeq(s, i + 1, i + Len(p)) = p

Digit(n) == <<"0", "1", "2", "3", "4", "5", "6", "7", "8", "9">>[n + 1]

\* str() of a non-negative integer
RECURSIVE StrNat(_)
StrNat(n) == IF n < 10 THEN <<Digit(n)>> ELSE StrNat(n \div 10) \o <<Digit(n % 10)>>

(* ------------------------------------------------------------------ *)
(* stratum labels: a Python str, int or float                          *)
(* ------------------------------------------------------------------ *)
LStr(s) == [t |-> "str", s |-> s, n |-> 0]
LInt(n) == [t |-> "int", s |-> <<>>, n |-> n]
LFloat(n) == [t |-> "float", s |-> <<>>, n |-> n]

\* Python's == on two labels: 0 == 0.0, and a str never equals a number
PyEq(a, b) ==
    IF a.t = "str" THEN b.t = "str" /\ a.s = b.s
    ELSE b.t # "str" /\ a.n = b.n

\* str(label): "5" for the int 5, "5.0" for the float 5.0
PyStr(l) ==
    CASE l.t = "str" -> l.s
      [] l.t = "int" -> StrNat(l.n)
      [] OTHER -> StrNat(l.n) \o <<".", "0">>

\* x in list, with Python's ==
PyIn(x, s) == \E i \in 1..Len(s) : PyEq(s[i], x)

\* key in dict, dict[key], dict[key] = value on a dict of <<key, value>> pairs
DictHas(d, k) == \E i \in 1..Len(d) : PyEq(d[i][1], k)
DictGet(d, k) == d[CHOOSE i \in 1..Len(d) : PyEq(d[i][1], k)][2]
DictSet(d, k, v) ==
    IF DictHas(d, k)
    THEN [i \in 1..Len(d) |-> IF PyEq(d[i][1], k) THEN <<d[i][1], v>> ELSE d[i]]
    ELSE Append(d, <<k, v>>)
DictValues(d) == [i \in 1..Len(d) |-> d[i][2]]

(* ------------------------------------------------------------------ *)
(* module-level functions of summer_model.py                           *)
(* ------------------------------------------------------------------ *)
\* positions (0-based, as in Python) of "X" in a string
XPositions(s) == {i \in 0..(Len(s) - 1) : s[i + 1] = "X"}

RECURSIVE SortedSeq(_)
SortedSeq(S) ==
    IF S = {} THEN <<>>
    ELSE LET m == CHOOSE x \in S : \A y \in S : x <= y
         IN  <<m>> \o SortedSeq(S \ {m})

Reverse(s) == [i \in 1..Len(s) |-> s[Len(s) + 1 - i]]

find_stem(stratified_string) ==
    IF XPositions(stratified_string) = {} THEN stratified_string
    ELSE SubSeq(stratified_string, 1, SortedSeq(XPositions(stratified_string))[1])

create_stratum_name(stratification_name, stratum_name) ==
    <<"X">> \o stratification_name \o <<"_">> \o PyStr(stratum_name)

create_stratified_name(stem, stratification_name, stratum_name) ==
    stem \o create_stratum_name(stratification_name, stratum_name)

extract_x_positions(parameter) ==
    Append(SortedSeq(XPositions(parameter)), Len(parameter))

extract_reversed_x_positions(parameter) ==
    Reverse(Append(SortedSeq(XPositions(parameter)), Len(parameter)))

\* normalise_dict divides by the sum of the values: ZeroDivisionError when it is 0
normalise_dict_raises(value_dict) == Len(value_dict) > 0 /\ RIsZero(RSum(DictValues(value_dict)))

normalise_dict(value_dict) ==
    [i \in 1..Len(value_dict) |->
        <<value_dict[i][1], RDiv(value_dict[i][2], RSum(DictValues(value_dict)))>>]

(* ------------------------------------------------------------------ *)
(* names the code spells out, and the names used by the modelled calls *)
(* ------------------------------------------------------------------ *)
susceptible == <<"s", "u", "s", "c", "e", "p", "t", "i", "b", "l", "e">>
infectious == <<"i", "n", "f", "e", "c", "t", "i", "o", "u", "s">>
recovered == <<"r", "e", "c", "o", "v", "e", "r", "e", "d">>
universal_death_rate ==
    <<"u", "n", "i", "v", "e", "r", "s", "a", "l", "_", "d", "e", "a", "t", "h", "_", "r", "a", "t", "e">>
crude_birth_rate ==
    <<"c", "r", "u", "d", "e", "_", "b", "i", "r", "t", "h", "_", "r", "a", "t", "e">>
entry_fractions == <<"e", "n", "t", "r", "y", "_", "f", "r", "a", "c", "t", "i", "o", "n", "s">>
entry_fraction == <<"e", "n", "t", "r", "y", "_", "f", "r", "a", "c", "t", "i", "o", "n">>
ageing == <<"a", "g", "e", "i", "n", "g">>
age == <<"a", "g", "e">>
hiv == <<"h", "i", "v">>
recovery == <<"r", "e", "c", "o", "v", "e", "r", "y">>
beta == <<"b", "e", "t", "a">>
infect_death == <<"i", "n", "f", "e", "c", "t", "_", "d", "e", "a", "t", "h">>
waning == <<"w", "a", "n", "i", "n", "g">>
neg == <<"n", "e", "g">>
pos == <<"p", "o", "s">>
loc == <<"l", "o", "c">>
urban == <<"u", "r", "b", "a", "n">>

\* the birth approaches EpiModel.__init__ lists, and the default of its signature
available_birth_approaches == {"add_crude_birth_rate", "replace_deaths", "no_births"}
default_birth_approach == "no_birth"

(* ------------------------------------------------------------------ *)
(* Python dicts with string keys: functions                            *)
(* ------------------------------------------------------------------ *)
EmptyDict == [x \in {} |-> 0]
\* f[k] = v and f.update(g)
DSet(f, k, v) == (k :> v) @@ f
DUpdate(f, g) == g @@ f

\* a working copy of the object during one call: exc names the exception raised
Raise(w, e) == [w EXCEPT !.exc = e]
Ok(w) == w.exc = "none"

(* ------------------------------------------------------------------ *)
(* EpiModel: construction                                              *)
(* ------------------------------------------------------------------ *)
\* the attributes __init__ sets before check_and_report_attributes is called
NewObject ==
    [exc |-> "none",
     stratified |-> FALSE,
     transition_flows |-> <<>>,
     death_flows |-> <<>>,
     tracked_quantities |-> EmptyDict,
     output_connections |-> <<>>,
     time_variants |-> EmptyDict,
     derived_outputs |-> [times |-> <<>>, series |-> <<>>],
     compartment_values |-> <<>>,
     compartment_names |-> <<>>,
     times |-> <<>>,
     compartment_types |-> <<>>,
     initial_conditions |-> EmptyDict,
     parameters |-> EmptyDict,
     infectious_compartment |-> <<>>,
     birth_approach |-> "",
     entry_compartment |-> <<>>,
     starting_population |-> R(0),
     default_starting_compartment |-> <<>>,
     strata |-> <<>>,
     removed_compartments |-> <<>>,
     overwrite_parameter |-> <<>>,
     compartment_types_to_stratify |-> <<>>,
     heterogeneous_infectiousness |-> FALSE,
     infectiousness_adjustments |-> <<>>,
     parameter_components |-> EmptyDict]

IsSorted(s) == \A i \in 1..(Len(s) - 1) : s[i] <= s[i + 1]

\* the two membership tests build a ValueError and never raise it; with unsorted times
\* output_to_user reads self.report, and the next line self.times, before __init__ has
\* set either
check_and_report_attributes(w, a) ==
    IF ~Ok(w) THEN w
    ELSE IF ~IsSorted(a.times) THEN Raise(w, "AttributeError")
    ELSE w

find_remainder_compartment_raises(w) ==
    Len(w.default_starting_compartment) > 0
        /\ ~InSeq(w.default_starting_compartment, w.compartment_types)

find_remainder_compartment(w) ==
    IF Len(w.default_starting_compartment) > 0 THEN w.default_starting_compartment
    ELSE w.entry_compartment

sum_initial_compartments_to_total(w) ==
    IF ~Ok(w) THEN w
    ELSE IF find_remainder_compartment_raises(w) THEN Raise(w, "ValueError")
    ELSE IF RGt(RSum(w.compartment_values), w.starting_population) THEN Raise(w, "ValueError")
    ELSE IF ~InSeq(find_remainder_compartment(w), w.compartment_names) THEN Raise(w, "ValueError")
    ELSE [w EXCEPT !.compartment_values[IndexOf(w.compartment_names, find_remainder_compartment(w))] =
                        RSub(w.starting_population, RSum(w.compartment_values))]

set_initial_conditions(w, initial_conditions_to_total) ==
    IF ~Ok(w) THEN w
    ELSE LET w1 == [w EXCEPT
                     !.compartment_names = w.compartment_types,
                     !.compartment_values =
                        [i \in 1..Len(w.compartment_types) |->
                            IF w.compartment_types[i] \in DOMAIN w.initial_conditions
                            THEN w.initial_conditions[w.compartment_types[i]] ELSE R(0)]]
         IN  IF initial_conditions_to_total THEN sum_initial_compartments_to_total(w1) ELSE w1

\* flow["implement"] = 0, whatever the number of stratifications made so far
add_transition_flow(w, flow) ==
    IF ~Ok(w) THEN w
    ELSE [w EXCEPT !.transition_flows = Append(@,
            [type |-> flow.type, parameter |-> flow.parameter, origin |-> flow.origin,
             to |-> flow.to, implement |-> 0])]

add_death_flow(w, flow) ==
    IF ~Ok(w) THEN w
    ELSE [w EXCEPT !.death_flows = Append(@,
            [type |-> flow.type, parameter |-> flow.parameter, origin |-> flow.origin,
             implement |-> 0])]

\* a requested flow is [type, parameter, origin, to]; a death flow has to = <<>> (no "to" key)
implement_one_flow(w, flow) ==
    IF ~Ok(w) THEN w
    ELSE IF flow.parameter \notin DOMAIN w.parameters THEN Raise(w, "ValueError")
    ELSE IF ~InSeq(flow.origin, w.compartment_types) THEN Raise(w, "ValueError")
    ELSE IF flow.to # <<>> /\ ~InSeq(flow.to, w.compartment_types) THEN Raise(w, "ValueError")
    ELSE LET w1 == IF flow.type = "compartment_death" THEN add_death_flow(w, flow)
                   ELSE add_transition_flow(w, flow)
             w2 == IF flow.type \in {"infection_density", "infection_frequency"}
                   THEN [w1 EXCEPT !.tracked_quantities = DSet(@, "infectious_population", R(0))]
                   ELSE w1
         IN  IF flow.type = "infection_frequency"
             THEN [w2 EXCEPT !.tracked_quantities = DSet(@, "total_population", R(0))]
             ELSE w2

RECURSIVE implement_flows(_, _)
implement_flows(w, requested_flows) ==
    IF requested_flows = <<>> \/ ~Ok(w) THEN w
    ELSE implement_flows(implement_one_flow(w, Head(requested_flows)), Tail(requested_flows))

add_default_quantities(w) ==
    IF ~Ok(w) THEN w
    ELSE LET p1 == IF universal_death_rate \notin DOMAIN w.parameters
                   THEN DSet(w.parameters, universal_death_rate, R(0)) ELSE w.parameters
             p2 == IF w.birth_approach = "add_crude_birth_rate" /\ crude_birth_rate \notin DOMAIN p1
                   THEN DSet(p1, crude_birth_rate, R(0)) ELSE p1
             t1 == IF w.birth_approach # "add_crude_birth_rate" /\ w.birth_approach = "replace_deaths"
                   THEN DSet(w.tracked_quantities, "total_deaths", R(0)) ELSE w.tracked_quantities
             t2 == [k \in (DOMAIN t1) \cup {w.output_connections[i].name : i \in 1..Len(w.output_connections)}
                        |-> IF k \in {w.output_connections[i].name : i \in 1..Len(w.output_connections)}
                            THEN R(0) ELSE t1[k]]
         IN  [w EXCEPT !.parameters = DSet(p2, entry_fractions, R(1)),
                       !.tracked_quantities = t2]

\* a is the record of the constructor's arguments
set_attributes(w, a) ==
    IF ~Ok(w) THEN w
    ELSE [w EXCEPT
           !.times = a.times,
           !.compartment_types = a.compartment_types,
           !.initial_conditions = a.initial_conditions,
           !.parameters = a.parameters,
           !.infectious_compartment = a.infectious_compartment,
           !.birth_approach = a.birth_approach,
           !.entry_compartment = a.entry_compartment,
           !.starting_population = a.starting_population,
           !.default_starting_compartment = a.default_starting_compartment]

EpiModel_init(a) ==
    add_default_quantities(
        implement_flows(
            set_initial_conditions(
                set_attributes(check_and_report_attributes(NewObject, a), a),
                a.initial_conditions_to_total),
            a.requested_flows))

(* ------------------------------------------------------------------ *)
(* StratifiedModel: construction                                       *)
(* ------------------------------------------------------------------ *)
\* the keyword arguments are not passed on: EpiModel.__init__ is called with the
\* literal defaults of the signature for everything after requested_flows
set_stratified_attributes(w) ==
    IF ~Ok(w) THEN w
    ELSE [w EXCEPT
           !.stratified = TRUE,
           !.strata = <<>>,
           !.removed_compartments = <<>>,
           !.overwrite_parameter = <<>>,
           !.compartment_types_to_stratify = <<>>,
           !.heterogeneous_infectiousness = FALSE,
           !.infectiousness_adjustments = <<>>,
           !.parameter_components = EmptyDict]

StratifiedModel_init(a) ==
    set_stratified_attributes(
        EpiModel_init(
            [a EXCEPT
              !.initial_conditions_to_total = TRUE,
              !.infectious_compartment = infectious,
              !.birth_approach = default_birth_approach,
              !.entry_compartment = susceptible,
              !.starting_population = R(1),
              !.default_starting_compartment = <<>>]))

(* ------------------------------------------------------------------ *)
(* StratifiedModel.stratify and the methods it calls                   *)
(*                                                                     *)
(* A strata request is [kind |-> "list", list |-> labels] or           *)
(* [kind |-> "int", n |-> N].  adjustment_requests is a sequence (the  *)
(* dict's iteration order) of                                          *)
(* [parameter, adjustments, has_overwrite, overwrite].                 *)
(* ------------------------------------------------------------------ *)
\* sorted() of a list of numeric labels (stable: equal numbers keep their order)
RECURSIVE SortLabels(_)
SortLabels(s) ==
    IF s = <<>> THEN <<>>
    ELSE LET i == CHOOSE k \in 1..Len(s) :
                    /\ \A j \in 1..Len(s) : s[k].n <= s[j].n
                    /\ \A j \in 1..(k - 1) : s[j].n # s[k].n
         IN  <<s[i]>> \o SortLabels([j \in 1..(Len(s) - 1) |-> IF j < i THEN s[j] ELSE s[j + 1]])

\* the checks without the one for an age stratification made before
check_age_stratification_raises_ignoring_repeat(w, strata_request, compartment_types_to_stratify) ==
    IF Len(compartment_types_to_stratify) > 0 THEN "ValueError"
    ELSE IF strata_request.kind = "int" THEN "TypeError"
    ELSE IF \E i \in 1..Len(strata_request.list) : strata_request.list[i].t \notin {"int", "float"}
         THEN "ValueError"
    ELSE "none"

check_age_stratification_raises(w, strata_request, compartment_types_to_stratify) ==
    IF InSeq(age, w.strata) THEN "ValueError"
    ELSE IF Len(compartment_types_to_stratify) > 0 THEN "ValueError"
    ELSE IF strata_request.kind = "int" THEN "TypeError"
    ELSE IF \E i \in 1..Len(strata_request.list) : strata_request.list[i].t \notin {"int", "float"}
         THEN "ValueError"
    ELSE "none"

\* the breakpoints with 0 appended and left in the order of the request
check_age_stratification_unsorted(strata_request) ==
    [kind |-> "list",
     list |-> IF ~PyIn(LInt(0), strata_request.list)
              THEN Append(strata_request.list, LInt(0)) ELSE strata_request.list]

\* the list of breakpoints returned: 0 appended when no breakpoint equals 0, then sorted
check_age_stratification(strata_request) ==
    LET with0 == IF ~PyIn(LInt(0), strata_request.list)
                 THEN Append(strata_request.list, LInt(0)) ELSE strata_request.list
    IN  [kind |-> "list", list |-> SortLabels(with0)]

\* numpy.arange(1, n + 1) for an integer request; the test for an empty list compares
\* the list itself with 0 and so never raises
find_strata_names_from_input(strata_request) ==
    IF strata_request.kind = "int" THEN [i \in 1..strata_request.n |-> LInt(i)]
    ELSE strata_request.list

\* the availability test reads self.compartment_types_to_stratify, the attribute left
\* by the previous call, and not the argument
check_compartment_request(w, compartment_types_to_stratify) ==
    IF ~Ok(w) THEN w
    ELSE IF Len(compartment_types_to_stratify) = 0
         THEN [w EXCEPT !.compartment_types_to_stratify = w.compartment_types]
    ELSE IF \E i \in 1..Len(w.compartment_types_to_stratify) :
                ~InSeq(w.compartment_types_to_stratify[i], w.compartment_types)
         THEN Raise(w, "ValueError")
    ELSE [w EXCEPT !.compartment_types_to_stratify = compartment_types_to_stratify]

check_parameter_adjustment_requests_raises(adjustment_requests, strata_names) ==
    \E p \in 1..Len(adjustment_requests) :
        \E k \in 1..Len(adjustment_requests[p].adjustments) :
            ~PyIn(adjustment_requests[p].adjustments[k][1], strata_names)

RECURSIVE FillAdjustments(_, _)
FillAdjustments(adjustments, strata_names) ==
    IF strata_names = <<>> THEN adjustments
    ELSE FillAdjustments(
            IF DictHas(adjustments, Head(strata_names)) THEN adjustments
            ELSE DictSet(adjustments, Head(strata_names), R(1)),
            Tail(strata_names))

\* the requests as the call leaves them: every stratum without a request is given 1
check_parameter_adjustment_requests(adjustment_requests, strata_names) ==
    [p \in 1..Len(adjustment_requests) |->
        [adjustment_requests[p] EXCEPT !.adjustments = FillAdjustments(@, strata_names)]]

\* the requested_proportions dict after the loop that fills the missing strata in place
RECURSIVE FillProportions(_, _, _)
FillProportions(requested_proportions, strata_names, n) ==
    IF strata_names = <<>> THEN requested_proportions
    ELSE FillProportions(
            IF DictHas(requested_proportions, Head(strata_names)) THEN requested_proportions
            ELSE DictSet(requested_proportions, Head(strata_names), Rat(1, n)),
            Tail(strata_names), n)

tidy_starting_proportions_filled(strata_names, requested_proportions) ==
    FillProportions(requested_proportions, strata_names, Len(strata_names))

tidy_starting_proportions(strata_names, requested_proportions) ==
    normalise_dict(tidy_starting_proportions_filled(strata_names, requested_proportions))

add_compartment(w, new_compartment_name, new_compartment_value) ==
    [w EXCEPT !.compartment_names = Append(@, new_compartment_name),
              !.compartment_values = Append(@, new_compartment_value)]

\* a removal that deletes the name and leaves the value in place
remove_compartment_names_only(w, compartment) ==
    [w EXCEPT !.removed_compartments = Append(@, compartment),
              !.compartment_names =
                [j \in 1..(Len(@) - 1) |->
                    IF j < IndexOf(w.compartment_names, compartment) THEN @[j] ELSE @[j + 1]]]

RemoveAt(s, i) == [j \in 1..(Len(s) - 1) |-> IF j < i THEN s[j] ELSE s[j + 1]]

remove_compartment(w, compartment) ==
    [w EXCEPT !.removed_compartments = Append(@, compartment),
              !.compartment_values = RemoveAt(@, IndexOf(w.compartment_names, compartment)),
              !.compartment_names = RemoveAt(@, IndexOf(w.compartment_names, compartment))]

RECURSIVE add_strata_of_compartment(_, _, _, _, _)
add_strata_of_compartment(w, compartment, stratification_name, strata_names, requested_proportions) ==
    IF strata_names = <<>> \/ ~Ok(w) THEN w
    ELSE add_strata_of_compartment(
            add_compartment(w,
                create_stratified_name(compartment, stratification_name, Head(strata_names)),
                RMul(w.compartment_values[IndexOf(w.compartment_names, compartment)],
                     DictGet(requested_proportions, Head(strata_names)))),
            compartment, stratification_name, Tail(strata_names), requested_proportions)

\* todo is what is left of the copy of compartment_names taken before the loop
RECURSIVE stratify_compartments_loop(_, _, _, _, _)
stratify_compartments_loop(w, todo, stratification_name, strata_names, requested_proportions) ==
    IF todo = <<>> \/ ~Ok(w) THEN w
    ELSE stratify_compartments_loop(
            IF InSeq(find_stem(Head(todo)), w.compartment_types_to_stratify)
            THEN remove_compartment(
                    add_strata_of_compartment(w, Head(todo), stratification_name, strata_names,
                                              requested_proportions),
                    Head(todo))
            ELSE w,
            Tail(todo), stratification_name, strata_names, requested_proportions)

stratify_compartments(w, stratification_name, strata_names, requested_proportions) ==
    IF ~Ok(w) THEN w
    ELSE stratify_compartments_loop(w, w.compartment_names, stratification_name, strata_names,
                                    requested_proportions)

\* r is [w, name, found]: the object, and the name returned (found = FALSE for None)
RECURSIVE add_adjusted_parameter_loop(_, _, _, _, _, _)
add_adjusted_parameter_loop(r, unadjusted_parameter, stratification_name, stratum, adjustment_requests, i) ==
    IF i > Len(adjustment_requests) \/ ~Ok(r.w) THEN r
    ELSE IF ~StartsWith(unadjusted_parameter, adjustment_requests[i].parameter)
         THEN add_adjusted_parameter_loop(r, unadjusted_parameter, stratification_name, stratum,
                                          adjustment_requests, i + 1)
    ELSE LET req == adjustment_requests[i]
             nm == create_stratified_name(unadjusted_parameter, stratification_name, stratum)
             w1 == IF ~DictHas(req.adjustments, stratum) THEN r.w
                   ELSE IF ~DictHas(req.adjustments, LStr(PyStr(stratum))) THEN Raise(r.w, "KeyError")
                   ELSE [r.w EXCEPT !.parameters =
                            DSet(@, nm, DictGet(req.adjustments, LStr(PyStr(stratum))))]
             w2 == IF Ok(w1) /\ req.has_overwrite /\ PyIn(stratum, req.overwrite)
                   THEN [w1 EXCEPT !.overwrite_parameter = Append(@, nm)]
                   ELSE w1
         IN  add_adjusted_parameter_loop([w |-> w2, name |-> nm, found |-> TRUE],
                                         unadjusted_parameter, stratification_name, stratum,
                                         adjustment_requests, i + 1)

add_adjusted_parameter(w, unadjusted_parameter, stratification_name, stratum, adjustment_requests) ==
    add_adjusted_parameter_loop([w |-> w, name |-> <<>>, found |-> FALSE],
                                unadjusted_parameter, stratification_name, stratum,
                                adjustment_requests, 1)

\* r is [w, name]; when only the destination is stratified the split parameter is
\* registered and then "return parameter_name" reads a local that was never assigned
sort_absent_parameter_request(w, stratification_name, strata_names, stratum, stratify_from, stratify_to, flow) ==
    IF ~stratify_from /\ stratify_to
    THEN [w |-> Raise([w EXCEPT !.parameters =
                        DSet(@, create_stratified_name(w.transition_flows[flow].parameter,
                                                       stratification_name, stratum),
                             Rat(1, Len(strata_names)))],
                      "UnboundLocalError"),
          name |-> <<>>]
    ELSE [w |-> w, name |-> w.transition_flows[flow].parameter]

\* r is the result of add_adjusted_parameter: the name it returned, or, for None,
\* what sort_absent_parameter_request returns
parameter_of_stratified_flow(r, stratification_name, strata_names, stratum, stratify_from, stratify_to, flow) ==
    IF ~Ok(r.w) \/ r.found THEN [w |-> r.w, name |-> r.name]
    ELSE sort_absent_parameter_request(r.w, stratification_name, strata_names, stratum,
                                       stratify_from, stratify_to, flow)

\* the stratified record written over the record it was made from
append_stratified_flow_in_place(r, old, stratification_name, stratum, stratify_from, stratify_to) ==
    IF ~Ok(r.w) THEN r.w
    ELSE [r.w EXCEPT !.transition_flows =
            [g \in 1..Len(@) |->
                IF @[g] = old
                THEN [type |-> old.type,
                      parameter |-> r.name,
                      origin |-> IF stratify_from
                                 THEN create_stratified_name(old.origin, stratification_name, stratum)
                                 ELSE old.origin,
                      to |-> IF stratify_to
                             THEN create_stratified_name(old.to, stratification_name, stratum)
                             ELSE old.to,
                      implement |-> Len(r.w.strata)]
                ELSE @[g]]]

append_stratified_flow(r, old, stratification_name, stratum, stratify_from, stratify_to) ==
    IF ~Ok(r.w) THEN r.w
    ELSE [r.w EXCEPT !.transition_flows = Append(@,
            [type |-> old.type,
             parameter |-> r.name,
             origin |-> IF stratify_from
                        THEN create_stratified_name(old.origin, stratification_name, stratum)
                        ELSE old.origin,
             to |-> IF stratify_to
                    THEN create_stratified_name(old.to, stratification_name, stratum)
                    ELSE old.to,
             implement |-> Len(r.w.strata)])]

add_one_stratified_flow(w, flow, stratification_name, strata_names, stratum, stratify_from, stratify_to, adjustment_requests) ==
    append_stratified_flow(
        parameter_of_stratified_flow(
            add_adjusted_parameter(w, w.transition_flows[flow].parameter, stratification_name,
                                   stratum, adjustment_requests),
            stratification_name, strata_names, stratum, stratify_from, stratify_to, flow),
        w.transition_flows[flow], stratification_name, stratum, stratify_from, stratify_to)

RECURSIVE add_stratified_flows_loop(_, _, _, _, _, _, _, _)
add_stratified_flows_loop(w, flow, stratification_name, strata_names, todo, stratify_from, stratify_to, adjustment_requests) ==
    IF todo = <<>> \/ ~Ok(w) THEN w
    ELSE add_stratified_flows_loop(
            add_one_stratified_flow(w, flow, stratification_name, strata_names, Head(todo),
                                    stratify_from, stratify_to, adjustment_requests),
            flow, stratification_name, strata_names, Tail(todo), stratify_from, stratify_to,
            adjustment_requests)

\* nothing is appended, and implement is left as it is, when neither end is stratified
add_stratified_flows(w, flow, stratification_name, strata_names, stratify_from, stratify_to, adjustment_requests) ==
    IF stratify_from \/ stratify_to
    THEN add_stratified_flows_loop(w, flow, stratification_name, strata_names, strata_names,
                                   stratify_from, stratify_to, adjustment_requests)
    ELSE w

\* the flows to stratify: the records whose implement is the depth before this call.
\* The loop over the rows first..last: one row, or the first half and then the second half
RECURSIVE stratify_transition_flows_loop(_, _, _, _, _, _)
stratify_transition_flows_loop(w, first, last, stratification_name, strata_names, adjustment_requests) ==
    IF first > last \/ ~Ok(w) THEN w
    ELSE IF first = last
         THEN IF w.transition_flows[first].implement = Len(w.strata) - 1
              THEN add_stratified_flows(w, first, stratification_name, strata_names,
                      InSeq(find_stem(w.transition_flows[first].origin), w.compartment_types_to_stratify),
                      InSeq(find_stem(w.transition_flows[first].to), w.compartment_types_to_stratify),
                      adjustment_requests)
              ELSE w
    ELSE stratify_transition_flows_loop(
            stratify_transition_flows_loop(w, first, (first + last) \div 2, stratification_name,
                                           strata_names, adjustment_requests),
            (first + last) \div 2 + 1, last, stratification_name, strata_names, adjustment_requests)

stratify_transition_flows(w, stratification_name, strata_names, adjustment_requests) ==
    IF ~Ok(w) THEN w
    ELSE stratify_transition_flows_loop(w, 1, Len(w.transition_flows), stratification_name,
                                        strata_names, adjustment_requests)

\* "ageing%sto%s" % (start_age, end_age)
ageing_parameter_name(start_age, end_age) ==
    ageing \o PyStr(start_age) \o <<"t", "o">> \o PyStr(end_age)

RECURSIVE add_ageing_flows(_, _, _, _, _)
add_ageing_flows(w, todo, start_age, end_age, depth) ==
    IF todo = <<>> \/ ~Ok(w) THEN w
    ELSE add_ageing_flows(
            [w EXCEPT !.transition_flows = Append(@,
                [type |-> "standard_flows",
                 parameter |-> ageing_parameter_name(start_age, end_age),
                 origin |-> create_stratified_name(Head(todo), age, start_age),
                 to |-> create_stratified_name(Head(todo), age, end_age),
                 implement |-> depth])],
            Tail(todo), start_age, end_age, depth)

\* the reciprocal of the upper breakpoint
ageing_rate_of_end_age(start_age, end_age) == Rat(1, end_age.n)

\* the rate registered for one pair of consecutive breakpoints
ageing_rate(start_age, end_age) == Rat(1, end_age.n - start_age.n)

RECURSIVE set_ageing_rates_loop(_, _, _)
set_ageing_rates_loop(w, strata_names, stratum_number) ==
    IF stratum_number > Len(strata_names) - 1 \/ ~Ok(w) THEN w
    ELSE LET start_age == strata_names[stratum_number]
             end_age == strata_names[stratum_number + 1]
         IN  set_ageing_rates_loop(
                IF end_age.n = start_age.n THEN Raise(w, "ZeroDivisionError")
                ELSE add_ageing_flows(
                        [w EXCEPT !.parameters =
                            DSet(@, ageing_parameter_name(start_age, end_age),
                                 ageing_rate(start_age, end_age))],
                        w.compartment_names, start_age, end_age, Len(w.strata)),
                strata_names, stratum_number + 1)

set_ageing_rates(w, strata_names) ==
    IF ~Ok(w) THEN w ELSE set_ageing_rates_loop(w, strata_names, 1)

\* the key stratify_entry_flows looks for in the normalised starting proportions
adjustments_key == LStr(<<"a", "d", "j", "u", "s", "t", "m", "e", "n", "t", "s">>)

\* sum of the values of a dict with string keys
RECURSIVE RSumDict(_, _)
RSumDict(f, keys) ==
    IF keys = {} THEN R(0)
    ELSE LET k == CHOOSE x \in keys : TRUE
         IN  RAdd(f[k], RSumDict(f, keys \ {k}))

\* the entry fraction given to one stratum before normalisation
entry_fraction_of(stratification_name, strata_names, stratum) ==
    IF stratification_name = age /\ PyStr(stratum) = <<"0">> THEN R(1)
    ELSE IF stratification_name = age THEN R(0)
    ELSE Rat(1, Len(strata_names))

RECURSIVE entry_fractions_dict(_, _, _, _)
entry_fractions_dict(acc, stratification_name, strata_names, todo) ==
    IF todo = <<>> THEN acc
    ELSE entry_fractions_dict(
            DSet(acc, create_stratified_name(entry_fraction, stratification_name, Head(todo)),
                 entry_fraction_of(stratification_name, strata_names, Head(todo))),
            stratification_name, strata_names, Tail(todo))

\* requested_proportions is the normalised dict: were "adjustments" one of its keys,
\* its value would be a number and "stratum in" it a TypeError
stratify_entry_flows(w, stratification_name, strata_names, requested_proportions) ==
    IF ~Ok(w) THEN w
    ELSE IF ~InSeq(w.entry_compartment, w.compartment_types_to_stratify) THEN w
    ELSE IF stratification_name # age /\ Len(strata_names) > 0
            /\ DictHas(requested_proportions, adjustments_key)
         THEN Raise(w, "TypeError")
    ELSE LET fractions == entry_fractions_dict(EmptyDict, stratification_name, strata_names,
                                               strata_names)
             total == RSumDict(fractions, DOMAIN fractions)
         IN  IF DOMAIN fractions # {} /\ RIsZero(total) THEN Raise(w, "ZeroDivisionError")
             ELSE [w EXCEPT !.parameters =
                        DUpdate(@, [k \in DOMAIN fractions |-> RDiv(fractions[k], total)])]

append_death_flow(r, old, stratification_name, stratum) ==
    IF ~Ok(r.w) THEN r.w
    ELSE [r.w EXCEPT !.death_flows = Append(@,
            [type |-> old.type,
             parameter |-> IF r.found THEN r.name ELSE old.parameter,
             origin |-> create_stratified_name(old.origin, stratification_name, stratum),
             implement |-> Len(r.w.strata)])]

add_one_death_flow(w, flow, stratification_name, stratum, adjustment_requests) ==
    append_death_flow(
        add_adjusted_parameter(w, w.death_flows[flow].parameter, stratification_name, stratum,
                               adjustment_requests),
        w.death_flows[flow], stratification_name, stratum)

RECURSIVE stratify_one_death_flow(_, _, _, _, _)
stratify_one_death_flow(w, flow, stratification_name, todo, adjustment_requests) ==
    IF todo = <<>> \/ ~Ok(w) THEN w
    ELSE stratify_one_death_flow(
            add_one_death_flow(w, flow, stratification_name, Head(todo), adjustment_requests),
            flow, stratification_name, Tail(todo), adjustment_requests)

\* every death flow of the previous depth is copied once per stratum, its origin
\* renamed, whether or not its origin is one of the compartments being stratified
RECURSIVE stratify_death_flows_loop(_, _, _, _, _, _)
stratify_death_flows_loop(w, flow, last, stratification_name, strata_names, adjustment_requests) ==
    IF flow > last \/ ~Ok(w) THEN w
    ELSE stratify_death_flows_loop(
            IF w.death_flows[flow].implement = Len(w.strata) - 1
            THEN stratify_one_death_flow(w, flow, stratification_name, strata_names,
                                         adjustment_requests)
            ELSE w,
            flow + 1, last, stratification_name, strata_names, adjustment_requests)

\* called only when the death-flow table has rows
stratify_death_flows(w, stratification_name, strata_names, adjustment_requests) ==
    IF ~Ok(w) \/ Len(w.death_flows) = 0 THEN w
    ELSE stratify_death_flows_loop(w, 1, Len(w.death_flows), stratification_name, strata_names,
                                   adjustment_requests)

RECURSIVE adjust_parameter_for_strata(_, _, _, _, _)
adjust_parameter_for_strata(w, parameter, stratification_name, todo, adjustment_requests) ==
    IF todo = <<>> \/ ~Ok(w) THEN w
    ELSE adjust_parameter_for_strata(
            add_adjusted_parameter(w, parameter, stratification_name, Head(todo),
                                   adjustment_requests).w,
            parameter, stratification_name, Tail(todo), adjustment_requests)

\* todo is the set of parameters whose stem is universal_death_rate, listed before the loop
RECURSIVE stratify_universal_death_rate_loop(_, _, _, _, _)
stratify_universal_death_rate_loop(w, todo, stratification_name, strata_names, adjustment_requests) ==
    IF todo = {} \/ ~Ok(w) THEN w
    ELSE LET parameter == CHOOSE x \in todo : \A y \in todo : Len(x) <= Len(y)
         IN  stratify_universal_death_rate_loop(
                adjust_parameter_for_strata(w, parameter, stratification_name, strata_names,
                                            adjustment_requests),
                todo \ {parameter}, stratification_name, strata_names, adjustment_requests)

stratify_universal_death_rate(w, stratification_name, strata_names, adjustment_requests) ==
    IF ~Ok(w) THEN w
    ELSE stratify_universal_death_rate_loop(
            w, {param \in DOMAIN w.parameters : find_stem(param) = universal_death_rate},
            stratification_name, strata_names, adjustment_requests)

\* dict[key] = value on a dict kept as a sequence of <<name, value>> pairs
NamedSet(d, k, v) ==
    IF \E i \in 1..Len(d) : d[i][1] = k
    THEN [i \in 1..Len(d) |-> IF d[i][1] = k THEN <<k, v>> ELSE d[i]]
    ELSE Append(d, <<k, v>>)

RECURSIVE apply_heterogeneous_infectiousness_loop(_, _, _, _)
apply_heterogeneous_infectiousness_loop(w, stratification_name, strata_request, todo) ==
    IF todo = <<>> \/ ~Ok(w) THEN w
    ELSE apply_heterogeneous_infectiousness_loop(
            IF strata_request.kind = "int" THEN Raise(w, "TypeError")
            ELSE IF ~PyIn(Head(todo)[1], strata_request.list) THEN Raise(w, "ValueError")
            ELSE [w EXCEPT !.infectiousness_adjustments =
                    NamedSet(@, create_stratified_name(<<>>, stratification_name, Head(todo)[1]),
                             Head(todo)[2])],
            stratification_name, strata_request, Tail(todo))

apply_heterogeneous_infectiousness(w, stratification_name, strata_request, infectiousness_adjustments) ==
    IF ~Ok(w) THEN w
    ELSE IF Len(infectiousness_adjustments) = 0 THEN w
    ELSE IF ~InSeq(w.infectious_compartment, w.compartment_types_to_stratify)
         THEN Raise(w, "ValueError")
    ELSE apply_heterogeneous_infectiousness_loop(
            [w EXCEPT !.heterogeneous_infectiousness = TRUE],
            stratification_name, strata_request, infectiousness_adjustments)

\* the strata request as the rest of the call sees it
prepared_strata_request(a) ==
    IF a.stratification_name = age THEN check_age_stratification(a.strata_request)
    ELSE a.strata_request

check_requests(w, a, strata_names) ==
    IF Ok(w) /\ check_parameter_adjustment_requests_raises(a.adjustment_requests, strata_names)
    THEN Raise(w, "ValueError")
    ELSE w

\* self.strata is appended to before the compartment and adjustment requests are checked
prepare_and_check_stratification(w, a) ==
    IF ~Ok(w) THEN w
    ELSE IF a.stratification_name = age
            /\ check_age_stratification_raises(w, a.strata_request,
                                               a.compartment_types_to_stratify) # "none"
         THEN Raise(w, check_age_stratification_raises(w, a.strata_request,
                                                       a.compartment_types_to_stratify))
    ELSE check_requests(
            check_compartment_request([w EXCEPT !.strata = Append(@, a.stratification_name)],
                                      a.compartment_types_to_stratify),
            a, find_strata_names_from_input(prepared_strata_request(a)))

\* the steps of stratify after the starting proportions are tidied, in the code's order
stratify_flows_step(w, step, a, strata_request, strata_names, adjustment_requests, requested_proportions) ==
    CASE step = 1 -> stratify_compartments(w, a.stratification_name, strata_names,
                                           requested_proportions)
      [] step = 2 -> stratify_transition_flows(w, a.stratification_name, strata_names,
                                               adjustment_requests)
      [] step = 3 -> stratify_entry_flows(w, a.stratification_name, strata_names,
                                          requested_proportions)
      [] step = 4 -> stratify_death_flows(w, a.stratification_name, strata_names,
                                          adjustment_requests)
      [] step = 5 -> stratify_universal_death_rate(w, a.stratification_name, strata_names,
                                                   adjustment_requests)
      [] step = 6 -> apply_heterogeneous_infectiousness(w, a.stratification_name, strata_request,
                                                        a.infectiousness_adjustments)

\* an exception in one step ends the call
RECURSIVE stratify_flows_from(_, _, _, _, _, _, _)
stratify_flows_from(w, step, a, strata_request, strata_names, adjustment_requests, requested_proportions) ==
    IF step > 6 \/ ~Ok(w) THEN w
    ELSE stratify_flows_from(
            stratify_flows_step(w, step, a, strata_request, strata_names, adjustment_requests,
                                requested_proportions),
            step + 1, a, strata_request, strata_names, adjustment_requests, requested_proportions)

stratify_flows(w, a, strata_request, strata_names, adjustment_requests, requested_proportions) ==
    stratify_flows_from(w, 1, a, strata_request, strata_names, adjustment_requests,
                        requested_proportions)

\* filled is the requested_proportions dict after tidy_starting_proportions filled it
stratify_proportions(w, a, strata_request, strata_names, filled) ==
    [w |-> IF ~Ok(w) THEN w
           ELSE IF normalise_dict_raises(filled) THEN Raise(w, "ZeroDivisionError")
           ELSE stratify_flows(w, a, strata_request, strata_names,
                               check_parameter_adjustment_requests(a.adjustment_requests,
                                                                   strata_names),
                               normalise_dict(filled)),
     defaults |-> filled]

stratify_checked(w, a, defaults, strata_request, strata_names) ==
    IF ~Ok(w) THEN [w |-> w, defaults |-> defaults]
    ELSE IF a.use_default_proportions
         THEN stratify_proportions(w, a, strata_request, strata_names,
                                   tidy_starting_proportions_filled(strata_names, defaults))
    ELSE [w |-> stratify_proportions(w, a, strata_request, strata_names,
                    tidy_starting_proportions_filled(strata_names, a.requested_proportions)).w,
          defaults |-> defaults]

stratify_prepared(w, a, defaults, strata_request) ==
    IF ~Ok(w) THEN [w |-> w, defaults |-> defaults]
    ELSE stratify_checked(
            IF a.stratification_name = age
            THEN set_ageing_rates(w, find_strata_names_from_input(strata_request))
            ELSE w,
            a, defaults, strata_request, find_strata_names_from_input(strata_request))

\* a is the record of the call's arguments; defaults is the dict object that is the
\* default value of requested_proportions, shared by every call that does not pass one.
\* The result is [w, defaults]: the object and that dict after the call.
stratify(w, a, defaults) ==
    stratify_prepared(prepare_and_check_stratification(w, a), a, defaults,
                      prepared_strata_request(a))

(* ------------------------------------------------------------------ *)
(* parameter resolution                                                *)
(* ------------------------------------------------------------------ *)
\* a time-variant is a function of time; the modelled ones are t |-> base + slope * t
TimeVariantValue(f, time) == R(f.base + f.slope * time)

\* the step of the loop with the two registrations tested in the other order: a
\* component that is both a constant and a time-variant counts as a constant
find_parameter_components_step_constant_first(w, pc, component) ==
    LET is_time_variant == component \in DOMAIN w.time_variants
    IN  IF pc.done THEN pc
        ELSE IF InSeq(component, w.overwrite_parameter) /\ is_time_variant
             THEN [time_variants |-> <<component>>, constants |-> <<>>, done |-> TRUE]
        ELSE IF InSeq(component, w.overwrite_parameter) /\ ~is_time_variant
             THEN [time_variants |-> <<>>, constants |-> <<component>>, done |-> FALSE]
        ELSE IF component \in DOMAIN w.parameters
             THEN [pc EXCEPT !.constants = Append(@, component)]
        ELSE IF is_time_variant
             THEN [pc EXCEPT !.time_variants = Append(@, component)]
        ELSE pc

\* one step of the loop over the reversed X positions; pc carries done = TRUE after break
find_parameter_components_step(w, pc, component) ==
    LET is_time_variant == component \in DOMAIN w.time_variants
    IN  IF pc.done THEN pc
        ELSE IF InSeq(component, w.overwrite_parameter) /\ is_time_variant
             THEN [time_variants |-> <<component>>, constants |-> <<>>, done |-> TRUE]
        ELSE IF InSeq(component, w.overwrite_parameter) /\ ~is_time_variant
             THEN [time_variants |-> <<>>, constants |-> <<component>>, done |-> FALSE]
        ELSE IF is_time_variant
             THEN [pc EXCEPT !.time_variants = Append(@, component)]
        ELSE IF component \in DOMAIN w.parameters
             THEN [pc EXCEPT !.constants = Append(@, component)]
        ELSE pc

RECURSIVE find_parameter_components_loop(_, _, _, _)
find_parameter_components_loop(w, pc, parameter, positions) ==
    IF positions = <<>> \/ pc.done THEN pc
    ELSE find_parameter_components_loop(
            w, find_parameter_components_step(w, pc, SubSeq(parameter, 1, Head(positions))),
            parameter, Tail(positions))

RECURSIVE constant_product(_, _)
constant_product(w, constants) ==
    IF constants = <<>> THEN R(1)
    ELSE RMul(w.parameters[Head(constants)], constant_product(w, Tail(constants)))

\* the entry stored in parameter_components[parameter]
parameter_components_of(w, parameter) ==
    LET pc == find_parameter_components_loop(
                w, [time_variants |-> <<>>, constants |-> <<>>, done |-> FALSE],
                parameter, extract_reversed_x_positions(parameter))
    IN  [time_variants |-> pc.time_variants,
         constants |-> pc.constants,
         constant_value |-> constant_product(w, pc.constants)]

find_parameter_components(w, parameter) ==
    IF ~Ok(w) THEN w
    ELSE LET pc == find_parameter_components_loop(
                    w, [time_variants |-> <<>>, constants |-> <<>>, done |-> FALSE],
                    parameter, extract_reversed_x_positions(parameter))
         IN  IF \E i \in 1..Len(pc.constants) : pc.constants[i] \notin DOMAIN w.parameters
             THEN Raise(w, "KeyError")
             ELSE [w EXCEPT !.parameter_components =
                        DSet(@, parameter, parameter_components_of(w, parameter))]

\* the implement and parameter columns of the two tables, transition flows first
flow_parameters(w) ==
    [f \in 1..Len(w.transition_flows) |->
        [implement |-> w.transition_flows[f].implement,
         parameter |-> w.transition_flows[f].parameter]]
    \o [f \in 1..Len(w.death_flows) |->
        [implement |-> w.death_flows[f].implement, parameter |-> w.death_flows[f].parameter]]

\* the rows that are active and whose parameter no earlier active row names
first_mentions(rows, depth) ==
    {f \in 1..Len(rows) :
        /\ rows[f].implement = depth
        /\ \A g \in 1..(f - 1) :
                rows[g].implement # depth \/ rows[g].parameter # rows[f].parameter}

\* the parameters of the chosen rows, in the order of the rows
parameters_in_order(rows, chosen) ==
    [k \in 1..Cardinality(chosen) |->
        rows[CHOOSE f \in chosen : Cardinality({g \in chosen : g <= f}) = k].parameter]

\* parameters_to_adjust before universal_death_rate is appended
parameters_of_active_flows(w) ==
    parameters_in_order(flow_parameters(w), first_mentions(flow_parameters(w), Len(w.strata)))

\* the loop over parameters_to_adjust[first..last]: one parameter, or the first half
\* and then the second half
RECURSIVE find_all_parameter_components(_, _, _, _)
find_all_parameter_components(w, parameters_to_adjust, first, last) ==
    IF first > last \/ ~Ok(w) THEN w
    ELSE IF first = last THEN find_parameter_components(w, parameters_to_adjust[first])
    ELSE find_all_parameter_components(
            find_all_parameter_components(w, parameters_to_adjust, first, (first + last) \div 2),
            parameters_to_adjust, (first + last) \div 2 + 1, last)

\* EpiModel's method is "pass"; StratifiedModel's fills parameter_components
prepare_stratified_parameter_calculations(w) ==
    IF ~w.stratified THEN w
    ELSE find_all_parameter_components(
            w, Append(parameters_of_active_flows(w), universal_death_rate),
            1, Len(parameters_of_active_flows(w)) + 1)

RECURSIVE time_variant_product(_, _, _)
time_variant_product(w, time_variants, time) ==
    IF time_variants = <<>> THEN R(1)
    ELSE RMul(TimeVariantValue(w.time_variants[Head(time_variants)], time),
              time_variant_product(w, Tail(time_variants), time))

\* EpiModel.find_parameter_value: a time-variant trumps a constant
find_parameter_value(w, parameter_name, time) ==
    IF parameter_name \in DOMAIN w.time_variants
    THEN TimeVariantValue(w.time_variants[parameter_name], time)
    ELSE w.parameters[parameter_name]

get_parameter_value_raises(w, parameter) ==
    IF w.stratified THEN parameter \notin DOMAIN w.parameter_components
    ELSE parameter \notin (DOMAIN w.time_variants) \cup (DOMAIN w.parameters)

get_parameter_value(w, parameter, time) ==
    IF w.stratified
    THEN RMul(w.parameter_components[parameter].constant_value,
              time_variant_product(w, w.parameter_components[parameter].time_variants, time))
    ELSE find_parameter_value(w, parameter, time)

(* ------------------------------------------------------------------ *)
(* the right-hand side: make_model_function of run_model               *)
(*                                                                     *)
(* An evaluation is carried as e = [w, ode, applied, resolved, deaths,  *)
(* births]: the object, ode_equations, and a record of what was done   *)
(* (indices of the transition flows applied, the <<parameter, value>>  *)
(* pairs get_parameter_value returned, the death net flows subtracted, *)
(* the births added).                                                  *)
(* ------------------------------------------------------------------ *)
EOk(e) == e.w.exc = "none"
ERaise(e, x) == [e EXCEPT !.w.exc = x]

increment_compartment(ode_equations, compartment_number, increment) ==
    [ode_equations EXCEPT ![compartment_number] = RAdd(@, increment)]

\* EpiModel.find_infectious_population adds, for every infectious compartment, the
\* value at the index of the name self.infectious_compartment
RECURSIVE epi_find_infectious_population(_, _, _, _)
epi_find_infectious_population(w, compartment_values, first, last) ==
    IF first > last \/ ~Ok(w) THEN w
    ELSE IF first = last
         THEN IF find_stem(w.compartment_names[first]) # w.infectious_compartment THEN w
              ELSE IF ~InSeq(w.infectious_compartment, w.compartment_names)
                   THEN Raise(w, "ValueError")
              ELSE [w EXCEPT !.tracked_quantities["infectious_population"] =
                      RAdd(@, compartment_values[IndexOf(w.compartment_names,
                                                         w.infectious_compartment)])]
    ELSE epi_find_infectious_population(
            epi_find_infectious_population(w, compartment_values, first, (first + last) \div 2),
            compartment_values, (first + last) \div 2 + 1, last)

\* the modifier of one compartment: the value of the last adjustment, in the dict's
\* order, whose name is a substring of the compartment's name
RECURSIVE infectiousness_modifier(_, _, _)
infectiousness_modifier(adjustments, compartment, modifier) ==
    IF adjustments = <<>> THEN modifier
    ELSE infectiousness_modifier(
            Tail(adjustments), compartment,
            IF Contains(compartment, Head(adjustments)[1]) THEN Head(adjustments)[2] ELSE modifier)

\* the loop over the compartments first..last: one compartment, or the first half and
\* then the second half
RECURSIVE find_infectious_population(_, _, _, _)
find_infectious_population(w, compartment_values, first, last) ==
    IF first > last \/ ~Ok(w) THEN w
    ELSE IF first = last
         THEN IF find_stem(w.compartment_names[first]) # w.infectious_compartment THEN w
              ELSE [w EXCEPT !.tracked_quantities["infectious_population"] =
                      RAdd(@, RMul(compartment_values[IndexOf(w.compartment_names,
                                                              w.compartment_names[first])],
                                   IF w.heterogeneous_infectiousness
                                   THEN infectiousness_modifier(w.infectiousness_adjustments,
                                                                w.compartment_names[first], R(1))
                                   ELSE R(1)))]
    ELSE find_infectious_population(
            find_infectious_population(w, compartment_values, first, (first + last) \div 2),
            compartment_values, (first + last) \div 2 + 1, last)

\* the update with total_deaths left at the value the last evaluation gave it
update_tracked_quantities_keeping_deaths(w, compartment_values) ==
    IF ~Ok(w) THEN w
    ELSE LET w1 == [w EXCEPT !.tracked_quantities =
                        [q \in DOMAIN w.tracked_quantities |->
                            IF q = "total_population" THEN RSum(compartment_values)
                            ELSE IF q = "total_deaths" THEN w.tracked_quantities[q]
                            ELSE R(0)]]
         IN  IF "infectious_population" \notin DOMAIN w.tracked_quantities THEN w1
             ELSE IF w.stratified
                  THEN find_infectious_population(w1, compartment_values, 1,
                                                  Len(w.compartment_names))
                  ELSE epi_find_infectious_population(w1, compartment_values, 1,
                                                      Len(w.compartment_names))

\* every tracked quantity is set to 0, then the two population quantities are computed
update_tracked_quantities(w, compartment_values) ==
    IF ~Ok(w) THEN w
    ELSE LET w1 == [w EXCEPT !.tracked_quantities =
                        [q \in DOMAIN w.tracked_quantities |->
                            IF q = "total_population" THEN RSum(compartment_values) ELSE R(0)]]
         IN  IF "infectious_population" \notin DOMAIN w.tracked_quantities THEN w1
             ELSE IF w.stratified
                  THEN find_infectious_population(w1, compartment_values, 1,
                                                  Len(w.compartment_names))
                  ELSE epi_find_infectious_population(w1, compartment_values, 1,
                                                      Len(w.compartment_names))

find_infectious_multiplier_raises(w, flow_type) ==
    flow_type = "infection_frequency" /\ RIsZero(w.tracked_quantities["total_population"])

find_infectious_multiplier(w, flow_type) ==
    IF flow_type = "infection_density" THEN w.tracked_quantities["infectious_population"]
    ELSE IF flow_type = "infection_frequency"
         THEN RDiv(w.tracked_quantities["infectious_population"],
                   w.tracked_quantities["total_population"])
    ELSE R(1)

\* an output connection is [name, origin, to]; both tests are substring tests
RECURSIVE track_derived_outputs(_, _, _, _)
track_derived_outputs(w, n_flow, net_flow, todo) ==
    IF todo = <<>> \/ ~Ok(w) THEN w
    ELSE track_derived_outputs(
            IF Contains(w.transition_flows[n_flow].origin, Head(todo).origin)
                /\ Contains(w.transition_flows[n_flow].to, Head(todo).to)
            THEN IF Head(todo).name \notin DOMAIN w.tracked_quantities THEN Raise(w, "KeyError")
                 ELSE [w EXCEPT !.tracked_quantities[Head(todo).name] = RAdd(@, net_flow)]
            ELSE w,
            n_flow, net_flow, Tail(todo))

RECURSIVE extend_derived_outputs_loop(_, _)
extend_derived_outputs_loop(w, todo) ==
    IF todo = <<>> \/ ~Ok(w) THEN w
    ELSE extend_derived_outputs_loop(
            IF ~\E i \in 1..Len(w.derived_outputs.series) :
                    w.derived_outputs.series[i][1] = Head(todo).name
               THEN Raise(w, "KeyError")
            ELSE IF Head(todo).name \notin DOMAIN w.tracked_quantities THEN Raise(w, "KeyError")
            ELSE [w EXCEPT !.derived_outputs.series =
                    [i \in 1..Len(@) |->
                        IF @[i][1] = Head(todo).name
                        THEN <<@[i][1], Append(@[i][2], w.tracked_quantities[Head(todo).name])>>
                        ELSE @[i]]],
            Tail(todo))

extend_derived_outputs(w, time) ==
    IF ~Ok(w) THEN w
    ELSE extend_derived_outputs_loop([w EXCEPT !.derived_outputs.times = Append(@, time)],
                                     w.output_connections)

\* a transition flow that adds to its destination and takes nothing from its origin
apply_one_transition_flow_adding_only(e, f, compartment_values, time) ==
    LET flow == e.w.transition_flows[f]
    IN  IF get_parameter_value_raises(e.w, flow.parameter) THEN ERaise(e, "KeyError")
        ELSE IF flow.type = "infection_density"
                /\ "infectious_population" \notin DOMAIN e.w.tracked_quantities
             THEN ERaise(e, "KeyError")
        ELSE IF find_infectious_multiplier_raises(e.w, flow.type) THEN ERaise(e, "ZeroDivisionError")
        ELSE IF ~InSeq(flow.origin, e.w.compartment_names) THEN ERaise(e, "ValueError")
        ELSE IF ~InSeq(flow.to, e.w.compartment_names) THEN ERaise(e, "ValueError")
        ELSE LET from_compartment == IndexOf(e.w.compartment_names, flow.origin)
                 net_flow == RMul(RMul(get_parameter_value(e.w, flow.parameter, time),
                                       compartment_values[from_compartment]),
                                  find_infectious_multiplier(e.w, flow.type))
             IN  [e EXCEPT
                    !.ode = increment_compartment(
                                @, IndexOf(e.w.compartment_names, flow.to), net_flow),
                    !.applied = Append(@, f),
                    !.resolved = Append(@, <<flow.parameter,
                                             get_parameter_value(e.w, flow.parameter, time)>>),
                    !.w = track_derived_outputs(e.w, f, net_flow, e.w.output_connections)]

apply_one_transition_flow(e, f, compartment_values, time) ==
    LET flow == e.w.transition_flows[f]
    IN  IF get_parameter_value_raises(e.w, flow.parameter) THEN ERaise(e, "KeyError")
        ELSE IF flow.type = "infection_density"
                /\ "infectious_population" \notin DOMAIN e.w.tracked_quantities
             THEN ERaise(e, "KeyError")
        ELSE IF find_infectious_multiplier_raises(e.w, flow.type) THEN ERaise(e, "ZeroDivisionError")
        ELSE IF ~InSeq(flow.origin, e.w.compartment_names) THEN ERaise(e, "ValueError")
        ELSE IF ~InSeq(flow.to, e.w.compartment_names) THEN ERaise(e, "ValueError")
        ELSE LET from_compartment == IndexOf(e.w.compartment_names, flow.origin)
                 net_flow == RMul(RMul(get_parameter_value(e.w, flow.parameter, time),
                                       compartment_values[from_compartment]),
                                  find_infectious_multiplier(e.w, flow.type))
             IN  [e EXCEPT
                    !.ode = increment_compartment(
                                increment_compartment(@, from_compartment, RSub(R(0), net_flow)),
                                IndexOf(e.w.compartment_names, flow.to), net_flow),
                    !.applied = Append(@, f),
                    !.resolved = Append(@, <<flow.parameter,
                                             get_parameter_value(e.w, flow.parameter, time)>>),
                    !.w = track_derived_outputs(e.w, f, net_flow, e.w.output_connections)]

\* the loop over the rows first..last: one row, or the first half and then the second half
RECURSIVE apply_transition_flows_loop(_, _, _, _, _)
apply_transition_flows_loop(e, first, last, compartment_values, time) ==
    IF first > last \/ ~EOk(e) THEN e
    ELSE IF first = last
         THEN IF e.w.transition_flows[first].implement = Len(e.w.strata)
              THEN apply_one_transition_flow(e, first, compartment_values, time)
              ELSE e
    ELSE apply_transition_flows_loop(
            apply_transition_flows_loop(e, first, (first + last) \div 2, compartment_values, time),
            (first + last) \div 2 + 1, last, compartment_values, time)

extend_after_flows(e, time) ==
    IF ~EOk(e) THEN e ELSE [e EXCEPT !.w = extend_derived_outputs(e.w, time)]

\* an EpiModel has no attribute strata: with a flow to test, len(self.strata) raises
apply_transition_flows(e, compartment_values, time) ==
    IF ~EOk(e) THEN e
    ELSE IF ~e.w.stratified /\ Len(e.w.transition_flows) > 0 THEN ERaise(e, "AttributeError")
    ELSE extend_after_flows(
            apply_transition_flows_loop(e, 1, Len(e.w.transition_flows), compartment_values, time),
            time)

apply_one_death_flow(e, f, compartment_values, time) ==
    LET flow == e.w.death_flows[f]
    IN  IF get_parameter_value_raises(e.w, flow.parameter) THEN ERaise(e, "KeyError")
        ELSE IF ~InSeq(flow.origin, e.w.compartment_names) THEN ERaise(e, "ValueError")
        ELSE LET from_compartment == IndexOf(e.w.compartment_names, flow.origin)
                 net_flow == RMul(get_parameter_value(e.w, flow.parameter, time),
                                  compartment_values[from_compartment])
             IN  [e EXCEPT
                    !.ode = increment_compartment(@, from_compartment, RSub(R(0), net_flow)),
                    !.resolved = Append(@, <<flow.parameter,
                                             get_parameter_value(e.w, flow.parameter, time)>>),
                    !.deaths = RAdd(@, net_flow),
                    !.w = IF "total_deaths" \in DOMAIN e.w.tracked_quantities
                          THEN [e.w EXCEPT !.tracked_quantities["total_deaths"] = RAdd(@, net_flow)]
                          ELSE e.w]

RECURSIVE apply_compartment_death_flows_loop(_, _, _, _, _)
apply_compartment_death_flows_loop(e, first, last, compartment_values, time) ==
    IF first > last \/ ~EOk(e) THEN e
    ELSE IF first = last
         THEN IF e.w.death_flows[first].implement = Len(e.w.strata)
              THEN apply_one_death_flow(e, first, compartment_values, time)
              ELSE e
    ELSE apply_compartment_death_flows_loop(
            apply_compartment_death_flows_loop(e, first, (first + last) \div 2,
                                               compartment_values, time),
            (first + last) \div 2 + 1, last, compartment_values, time)

\* called only when the death-flow table has rows
apply_compartment_death_flows(e, compartment_values, time) ==
    IF ~EOk(e) \/ Len(e.w.death_flows) = 0 THEN e
    ELSE IF ~e.w.stratified THEN ERaise(e, "AttributeError")
    ELSE apply_compartment_death_flows_loop(e, 1, Len(e.w.death_flows), compartment_values, time)

\* the rate is looked up under the name "universal_death_rate" for every compartment
apply_universal_death_flow_to(e, compartment, compartment_values, time) ==
    IF get_parameter_value_raises(e.w, universal_death_rate) THEN ERaise(e, "KeyError")
    ELSE LET from_compartment == IndexOf(e.w.compartment_names, compartment)
             net_flow == RMul(get_parameter_value(e.w, universal_death_rate, time),
                              compartment_values[from_compartment])
         IN  [e EXCEPT
                !.ode = increment_compartment(@, from_compartment, RSub(R(0), net_flow)),
                !.deaths = RAdd(@, net_flow),
                !.w = IF "total_deaths" \in DOMAIN e.w.tracked_quantities
                      THEN [e.w EXCEPT !.tracked_quantities["total_deaths"] = RAdd(@, net_flow)]
                      ELSE e.w]

RECURSIVE apply_universal_death_flow_loop(_, _, _, _, _)
apply_universal_death_flow_loop(e, first, last, compartment_values, time) ==
    IF first > last \/ ~EOk(e) THEN e
    ELSE IF first = last
         THEN apply_universal_death_flow_to(e, e.w.compartment_names[first], compartment_values,
                                            time)
    ELSE apply_universal_death_flow_loop(
            apply_universal_death_flow_loop(e, first, (first + last) \div 2, compartment_values,
                                            time),
            (first + last) \div 2 + 1, last, compartment_values, time)

apply_universal_death_flow(e, compartment_values, time) ==
    IF ~EOk(e) THEN e
    ELSE apply_universal_death_flow_loop(e, 1, Len(e.w.compartment_names), compartment_values,
                                         time)

find_total_births_raises(w) ==
    \/ w.birth_approach = "add_crude_birth_rate" /\ crude_birth_rate \notin DOMAIN w.parameters
    \/ w.birth_approach = "replace_deaths" /\ "total_deaths" \notin DOMAIN w.tracked_quantities

find_total_births(w, compartment_values) ==
    IF w.birth_approach = "add_crude_birth_rate"
    THEN RMul(w.parameters[crude_birth_rate], RSum(compartment_values))
    ELSE IF w.birth_approach = "replace_deaths" THEN w.tracked_quantities["total_deaths"]
    ELSE R(0)

\* EpiModel.apply_birth_rate: all births go to the entry compartment
epi_apply_birth_rate(e, compartment_values) ==
    IF ~EOk(e) THEN e
    ELSE IF ~InSeq(e.w.entry_compartment, e.w.compartment_names) THEN ERaise(e, "ValueError")
    ELSE IF find_total_births_raises(e.w) THEN ERaise(e, "KeyError")
    ELSE [e EXCEPT
            !.ode = increment_compartment(@, IndexOf(e.w.compartment_names, e.w.entry_compartment),
                                          find_total_births(e.w, compartment_values)),
            !.births = RAdd(@, find_total_births(e.w, compartment_values))]

\* the names of the entry_fraction parameters of a compartment, one per "X" layer
entry_fraction_names(compartment) ==
    LET x_positions == extract_x_positions(compartment)
    IN  [i \in 1..(Len(x_positions) - 1) |->
            entry_fraction \o <<"X">>
                \o SubSeq(compartment, x_positions[i] + 2, x_positions[i + 1])]

\* the entry fraction of the deepest layer alone
entry_fraction_of_last_layer(w, names) ==
    IF names = <<>> THEN R(1) ELSE w.parameters[names[Len(names)]]

RECURSIVE entry_fraction_product(_, _)
entry_fraction_product(w, names) ==
    IF names = <<>> THEN R(1)
    ELSE RMul(w.parameters[Head(names)], entry_fraction_product(w, Tail(names)))

apply_birth_rate_to(e, compartment, total_births) ==
    IF find_stem(compartment) # e.w.entry_compartment THEN e
    ELSE IF \E i \in 1..Len(entry_fraction_names(compartment)) :
                entry_fraction_names(compartment)[i] \notin DOMAIN e.w.parameters
         THEN ERaise(e, "KeyError")
    ELSE LET compartment_births ==
                RMul(entry_fraction_product(e.w, entry_fraction_names(compartment)),
                     total_births)
         IN  [e EXCEPT
                !.ode = increment_compartment(@, IndexOf(e.w.compartment_names, compartment),
                                              compartment_births),
                !.births = RAdd(@, compartment_births)]

RECURSIVE apply_birth_rate_loop(_, _, _, _)
apply_birth_rate_loop(e, first, last, total_births) ==
    IF first > last \/ ~EOk(e) THEN e
    ELSE IF first = last THEN apply_birth_rate_to(e, e.w.compartment_names[first], total_births)
    ELSE apply_birth_rate_loop(
            apply_birth_rate_loop(e, first, (first + last) \div 2, total_births),
            (first + last) \div 2 + 1, last, total_births)

\* StratifiedModel.apply_birth_rate
apply_birth_rate(e, compartment_values) ==
    IF ~EOk(e) THEN e
    ELSE IF ~e.w.stratified THEN epi_apply_birth_rate(e, compartment_values)
    ELSE IF find_total_births_raises(e.w) THEN ERaise(e, "KeyError")
    ELSE apply_birth_rate_loop(e, 1, Len(e.w.compartment_names),
                               find_total_births(e.w, compartment_values))

\* transitions, then compartment deaths, then universal deaths, then births
apply_all_flow_types_to_odes(e, compartment_values, time) ==
    apply_birth_rate(
        apply_universal_death_flow(
            apply_compartment_death_flows(
                apply_transition_flows(e, compartment_values, time),
                compartment_values, time),
            compartment_values, time),
        compartment_values)

\* one call of the function handed to odeint
make_model_function(w, compartment_values, time) ==
    apply_all_flow_types_to_odes(
        [w |-> update_tracked_quantities(w, compartment_values),
         ode |-> [i \in 1..Len(w.compartment_names) |-> R(0)],
         applied |-> <<>>,
         resolved |-> <<>>,
         deaths |-> R(0),
         births |-> R(0)],
        compartment_values, time)

(* ------------------------------------------------------------------ *)
(* the modelled calls                                                  *)
(* ------------------------------------------------------------------ *)
Flow(type, parameter, origin, to) ==
    [type |-> type, parameter |-> parameter, origin |-> origin, to |-> to]

\* the arguments of the constructor; time_variants are registered by the caller
\* right after construction (model.time_variants[name] = function)
ConstructorArgs(parameters, requested_flows, time_variants, birth_approach) ==
    [times |-> <<0, 1>>,
     compartment_types |-> <<susceptible, infectious, recovered>>,
     initial_conditions |-> [x \in {infectious} |-> Rat(1, 4)],
     parameters |-> parameters,
     requested_flows |-> requested_flows,
     time_variants |-> time_variants,
     initial_conditions_to_total |-> TRUE,
     infectious_compartment |-> infectious,
     birth_approach |-> birth_approach,
     entry_compartment |-> susceptible,
     starting_population |-> R(1),
     default_starting_compartment |-> <<>>]

\* an SIR model without deaths
SirArgs ==
    ConstructorArgs(
        [x \in {beta, recovery} |-> IF x = beta THEN R(2) ELSE Rat(1, 2)],
        <<Flow("standard_flows", recovery, infectious, recovered),
          Flow("infection_density", beta, susceptible, infectious)>>,
        EmptyDict, default_birth_approach)

\* the same with waning immunity at a time-variant rate and frequency-dependent infection
SirsArgs ==
    ConstructorArgs(
        [x \in {beta, recovery, waning} |-> IF x = beta THEN R(2) ELSE Rat(1, 2)],
        <<Flow("standard_flows", recovery, infectious, recovered),
          Flow("infection_frequency", beta, susceptible, infectious),
          Flow("standard_flows", waning, recovered, susceptible)>>,
        [x \in {waning} |-> [base |-> 1, slope |-> 1]], default_birth_approach)

\* the SIR model with a death flow and a universal death rate
SirDeathArgs ==
    ConstructorArgs(
        [x \in {beta, recovery, infect_death, universal_death_rate} |->
            IF x = beta THEN R(2) ELSE IF x = universal_death_rate THEN Rat(1, 10) ELSE Rat(1, 2)],
        <<Flow("standard_flows", recovery, infectious, recovered),
          Flow("infection_density", beta, susceptible, infectious),
          Flow("compartment_death", infect_death, infectious, <<>>)>>,
        EmptyDict, default_birth_approach)

StratifyArgs(stratification_name, strata, compartment_types_to_stratify) ==
    [stratification_name |-> stratification_name,
     strata_request |-> [kind |-> "list", list |-> strata],
     compartment_types_to_stratify |-> compartment_types_to_stratify,
     adjustment_requests |-> <<>>,
     use_default_proportions |-> TRUE,
     requested_proportions |-> <<>>,
     infectiousness_adjustments |-> <<>>]

\* the stratify calls made on the model
StratifyCalls ==
    {StratifyArgs(hiv, <<LStr(neg), LStr(pos)>>, <<>>),
     StratifyArgs(hiv, <<LStr(neg), LStr(pos)>>, <<susceptible>>),
     StratifyArgs(hiv, <<LStr(neg), LStr(pos)>>, <<recovered>>),
     StratifyArgs(loc, <<LStr(urban)>>, <<>>),
     StratifyArgs(loc, <<LStr(urban)>>, <<susceptible>>),
     [StratifyArgs(hiv, <<LStr(neg), LStr(pos)>>, <<>>) EXCEPT
        !.use_default_proportions = FALSE,
        !.requested_proportions = <<<<LStr(neg), Rat(3, 5)>>>>],
     StratifyArgs(age, <<LInt(5), LInt(15)>>, <<>>),
     StratifyArgs(age, <<LFloat(0), LFloat(5)>>, <<>>)}

\* the state vectors handed to the right-hand side for n compartments
StateVectors(n) ==
    {[i \in 1..n |-> R(1)], [i \in 1..n |-> Rat(i, 2)]}

NoRhs ==
    [ok |-> FALSE, ode |-> <<>>, applied |-> <<>>, resolved |-> <<>>, deaths |-> R(0),
     births |-> R(0), compartment_values |-> <<>>, time |-> 0]

(* ------------------------------------------------------------------ *)
(* state                                                               *)
(* ------------------------------------------------------------------ *)
VARIABLES
    self,              \* the model object's attributes
    stratify_defaults, \* the dict that is stratify's default for requested_proportions
    phase,             \* "built": constructed; "running": run_model has started;
                       \* "failed": a call raised and the script ended
    raised,            \* the exception the last call raised, or "none"
    init_args,         \* the class constructed and the arguments of the constructor
    calls,             \* the stratify calls made: arguments, object before, exception
    rhs                \* the last right-hand-side evaluation: its input and what it returned

vars == <<self, stratify_defaults, phase, raised, init_args, calls, rhs>>

Settled(w) == [w EXCEPT !.exc = "none"]

\* the state after StratifiedModel(...) (or EpiModel(...)) and the caller's
\* registration of time-variants
Constructed(a, stratified) ==
    LET w == IF stratified THEN StratifiedModel_init(a) ELSE EpiModel_init(a)
    IN  /\ self = Settled(IF Ok(w) THEN [w EXCEPT !.time_variants = a.time_variants] ELSE w)
        /\ stratify_defaults = <<>>
        /\ phase = IF Ok(w) THEN "built" ELSE "failed"
        /\ raised = w.exc
        /\ init_args = [a |-> a, stratified |-> stratified]
        /\ calls = <<>>
        /\ rhs = NoRhs

Init == \E a \in {SirArgs, SirsArgs, SirDeathArgs} : Constructed(a, TRUE)

\* model.stratify(...); an exception ends the script
Stratify(a) ==
    /\ phase = "built"
    /\ self.stratified
    /\ Len(self.strata) < MaxStrata
    /\ LET r == stratify(self, a, stratify_defaults)
       IN  /\ self' = Settled(r.w)
           /\ stratify_defaults' = r.defaults
           /\ raised' = r.w.exc
           /\ phase' = IF Ok(r.w) THEN "built" ELSE "failed"
           /\ calls' = Append(calls, [a |-> a, before |-> self, exc |-> r.w.exc])
    /\ UNCHANGED <<init_args, rhs>>

\* model.run_model() up to the call of odeint
RunModel ==
    /\ phase = "built"
    /\ LET w == prepare_stratified_parameter_calculations(self)
       IN  /\ self' = Settled(w)
           /\ raised' = w.exc
           /\ phase' = IF Ok(w) THEN "running" ELSE "failed"
    /\ UNCHANGED <<stratify_defaults, init_args, calls, rhs>>

\* one call by odeint of the function run_model hands it
EvalRHS(compartment_values, time, max_evals) ==
    /\ phase = "running"
    /\ Len(self.derived_outputs.times) < max_evals
    /\ LET e == make_model_function(self, compartment_values, time)
       IN  /\ self' = Settled(e.w)
           /\ raised' = e.w.exc
           /\ phase' = IF EOk(e) THEN "running" ELSE "failed"
           /\ rhs' = [ok |-> EOk(e), ode |-> e.ode, applied |-> e.applied,
                      resolved |-> e.resolved, deaths |-> e.deaths, births |-> e.births,
                      compartment_values |-> compartment_values, time |-> time]
    /\ UNCHANGED <<stratify_defaults, init_args, calls>>

Next ==
    \/ \E a \in StratifyCalls : Stratify(a)
    \/ RunModel
    \/ \E compartment_values \in StateVectors(Len(self.compartment_names)), time \in 0..MaxTime :
            EvalRHS(compartment_values, time, MaxEvals)

Spec == Init /\ [][Next]_vars

(* ------------------------------------------------------------------ *)
(* parameter resolution on a stratified model: requests with           *)
(* adjustments and overwrites, time-variants registered by the caller  *)
(* ------------------------------------------------------------------ *)
AdjustmentRequest(parameter, adjustments, has_overwrite, overwrite) ==
    [parameter |-> parameter, adjustments |-> adjustments,
     has_overwrite |-> has_overwrite, overwrite |-> overwrite]

\* the SIR model as built, with recovery registered as a time-variant too, and with a
\* time-variant registered under the name the hiv stratification gives recovery
\* the SIR model with relapse from recovered at a rate whose name begins with "recovery"
recovery_relapse == recovery \o <<"_", "r", "e", "l", "a", "p", "s", "e">>

RelapseArgs ==
    ConstructorArgs(
        [x \in {beta, recovery, recovery_relapse} |-> IF x = beta THEN R(2) ELSE Rat(1, 2)],
        <<Flow("standard_flows", recovery, infectious, recovered),
          Flow("infection_density", beta, susceptible, infectious),
          Flow("standard_flows", recovery_relapse, recovered, infectious)>>,
        EmptyDict, default_birth_approach)

ParameterModels ==
    {SirArgs, RelapseArgs,
     [SirArgs EXCEPT !.time_variants = [x \in {recovery} |-> [base |-> 1, slope |-> 1]]],
     [SirArgs EXCEPT !.time_variants =
        [x \in {create_stratified_name(recovery, hiv, LStr(neg))} |-> [base |-> 4, slope |-> 1]]]}

ParameterCalls ==
    {[StratifyArgs(hiv, <<LStr(neg), LStr(pos)>>, <<>>) EXCEPT !.adjustment_requests =
        <<AdjustmentRequest(recovery, <<<<LStr(neg), R(3)>>, <<LStr(pos), R(2)>>>>, FALSE, <<>>)>>],
     [StratifyArgs(hiv, <<LStr(neg), LStr(pos)>>, <<>>) EXCEPT !.adjustment_requests =
        <<AdjustmentRequest(recovery, <<<<LStr(neg), R(3)>>, <<LStr(pos), R(2)>>>>, TRUE,
                            <<LStr(neg)>>)>>],
     [StratifyArgs(loc, <<LStr(urban)>>, <<>>) EXCEPT !.adjustment_requests =
        <<AdjustmentRequest(recovery, <<<<LStr(urban), R(5)>>>>, FALSE, <<>>)>>],
     [StratifyArgs(loc, <<LStr(urban)>>, <<>>) EXCEPT !.adjustment_requests =
        <<AdjustmentRequest(recovery, <<<<LStr(urban), R(5)>>>>, TRUE, <<LStr(urban)>>)>>]}

UnitVector(n) == [i \in 1..n |-> R(1)]

InitParam == \E a \in ParameterModels : Constructed(a, TRUE)

NextParam ==
    \/ \E a \in ParameterCalls : Stratify(a)
    \/ RunModel
    \/ \E time \in 0..MaxTime :
            EvalRHS(UnitVector(Len(self.compartment_names)), time, MaxEvals)

SpecParam == InitParam /\ [][NextParam]_vars

(* ------------------------------------------------------------------ *)
(* births and deaths: models of either class without flows, built with *)
(* each birth approach and a universal death rate                      *)
(* ------------------------------------------------------------------ *)
\* the most right-hand-side evaluations made in one run of these models
MaxBirthEvals == 2

BirthArgs(rate, birth_approach, requested_flows) ==
    ConstructorArgs(
        [x \in {universal_death_rate, crude_birth_rate, infect_death} |->
            IF x = universal_death_rate THEN rate ELSE Rat(1, 4)],
        requested_flows, EmptyDict, birth_approach)

\* without flows, and with one compartment-death flow
BirthModels ==
    {BirthArgs(rate, birth_approach, requested_flows) :
        rate \in {Rat(1, 10), Rat(1, 2)},
        birth_approach \in {"replace_deaths", "add_crude_birth_rate", "no_births"},
        requested_flows \in {<<>>, <<Flow("compartment_death", infect_death, infectious, <<>>)>>}}

InitBirth == \E a \in BirthModels, stratified \in BOOLEAN : Constructed(a, stratified)

NextBirth ==
    \/ RunModel
    \/ \E compartment_values \in StateVectors(Len(self.compartment_names)), time \in 0..MaxTime :
            EvalRHS(compartment_values, time, MaxBirthEvals)

SpecBirth == InitBirth /\ [][NextBirth]_vars

(* ------------------------------------------------------------------ *)
(* construction: models of either class built with sorted and unsorted *)
(* times, with an infectious compartment that is or is not one of the  *)
(* compartment types, and with each spelling of the birth approach     *)
(* ------------------------------------------------------------------ *)
infected == <<"i", "n", "f", "e", "c", "t", "e", "d">>

\* requested initial values: below the starting population of 1 without and with a value
\* for susceptible or recovered, equal to it, and above it
InitialConditionRequests ==
    {[x \in {infectious} |-> Rat(1, 4)],
     [x \in {susceptible, infectious} |-> IF x = susceptible THEN Rat(1, 2) ELSE Rat(1, 4)],
     [x \in {recovered} |-> Rat(1, 4)],
     [x \in {susceptible} |-> R(1)],
     [x \in {infectious} |-> Rat(3, 2)]}

ConstructionModels ==
    {[BirthArgs(Rat(1, 10), birth_approach, <<>>) EXCEPT
        !.times = times, !.infectious_compartment = infectious_compartment] :
        times \in {<<0, 1>>, <<1, 0>>},
        infectious_compartment \in {infectious, infected},
        birth_approach \in available_birth_approaches \cup {default_birth_approach, "births"}}
    \cup
    {[BirthArgs(Rat(1, 10), default_birth_approach, <<>>) EXCEPT
        !.initial_conditions = initial_conditions,
        !.default_starting_compartment = default_starting_compartment] :
        initial_conditions \in InitialConditionRequests,
        default_starting_compartment \in {<<>>, recovered}}

InitConstruction == \E a \in ConstructionModels, stratified \in BOOLEAN : Constructed(a, stratified)

SpecConstruction == InitConstruction /\ [][NextBirth]_vars

(* ------------------------------------------------------------------ *)
(* requests: stratify calls whose compartment subset, adjustment       *)
(* strata or age breakpoints are, or are not, what stratify asks for   *)
(* ------------------------------------------------------------------ *)
RequestCalls ==
    {StratifyArgs(hiv, <<LStr(neg), LStr(pos)>>, <<infected>>),
     StratifyArgs(hiv, <<LStr(neg), LStr(pos)>>, <<susceptible>>),
     StratifyArgs(loc, <<LStr(urban)>>, <<susceptible, infected>>),
     StratifyArgs(loc, <<LStr(urban)>>, <<>>),
     [StratifyArgs(hiv, <<LStr(neg), LStr(pos)>>, <<>>) EXCEPT !.adjustment_requests =
        <<AdjustmentRequest(recovery, <<<<LStr(urban), R(2)>>>>, FALSE, <<>>)>>],
     [StratifyArgs(hiv, <<LStr(neg), LStr(pos)>>, <<>>) EXCEPT !.adjustment_requests =
        <<AdjustmentRequest(recovery, <<<<LStr(neg), R(2)>>>>, FALSE, <<>>)>>],
     StratifyArgs(age, <<LInt(5), LInt(15)>>, <<>>),
     StratifyArgs(age, <<LInt(15), LInt(5)>>, <<>>),
     StratifyArgs(age, <<LInt(5), LInt(15)>>, <<susceptible>>),
     StratifyArgs(age, <<LInt(5), LStr(urban)>>, <<>>),
     [StratifyArgs(age, <<LInt(5), LInt(50)>>, <<>>) EXCEPT !.infectiousness_adjustments =
        <<<<LInt(5), Rat(1, 2)>>>>],
     [StratifyArgs(hiv, <<LStr(neg), LStr(pos)>>, <<>>) EXCEPT !.infectiousness_adjustments =
        <<<<LStr(pos), Rat(1, 2)>>>>],
     [StratifyArgs(hiv, <<LStr(neg), LStr(pos)>>, <<susceptible>>) EXCEPT
        !.infectiousness_adjustments = <<<<LStr(pos), Rat(1, 2)>>>>],
     [StratifyArgs(hiv, <<LStr(neg), LStr(pos)>>, <<>>) EXCEPT !.infectiousness_adjustments =
        <<<<LStr(urban), R(2)>>>>]}

NextRequests ==
    \/ \E a \in RequestCalls : Stratify(a)
    \/ RunModel
    \/ \E compartment_values \in StateVectors(Len(self.compartment_names)), time \in 0..MaxTime :
            EvalRHS(compartment_values, time, MaxEvals)

InitRequests == Constructed(SirArgs, TRUE)

SpecRequests == InitRequests /\ [][NextRequests]_vars

(* ------------------------------------------------------------------ *)
(* flows added by the caller: the script stratifies, then calls        *)
(* add_transition_flow and add_death_flow, then runs the model         *)
(* ------------------------------------------------------------------ *)
MaxAddedFlows == 1

\* the SIR model with parameters for the flows the caller adds later
AddFlowArgs ==
    [SirArgs EXCEPT !.parameters =
        [x \in {beta, recovery, waning, infect_death} |-> IF x = beta THEN R(2) ELSE Rat(1, 2)]]

AddFlowCalls ==
    {StratifyArgs(hiv, <<LStr(neg), LStr(pos)>>, <<>>), StratifyArgs(loc, <<LStr(urban)>>, <<>>)}

AddedTransitionFlows(w) ==
    {f \in 1..Len(w.transition_flows) : w.transition_flows[f].parameter = waning}

AddedDeathFlows(w) ==
    {f \in 1..Len(w.death_flows) : w.death_flows[f].parameter = infect_death}

\* model.add_transition_flow({...}), as src/tb_model.py calls it on the constructed model
AddTransitionFlow(flow) ==
    /\ phase = "built"
    /\ Cardinality(AddedTransitionFlows(self)) < MaxAddedFlows
    /\ self' = add_transition_flow(self, flow)
    /\ UNCHANGED <<stratify_defaults, phase, raised, init_args, calls, rhs>>

\* model.add_death_flow({...})
AddDeathFlow(flow) ==
    /\ phase = "built"
    /\ Cardinality(AddedDeathFlows(self)) < MaxAddedFlows
    /\ self' = add_death_flow(self, flow)
    /\ UNCHANGED <<stratify_defaults, phase, raised, init_args, calls, rhs>>

\* model.output_connections[name] = {"origin": origin, "to": to}: the dict is empty after
\* construction and the caller is the only one to write to it
RegisterOutputConnection(name, origin, to) ==
    /\ phase = "built"
    /\ \A i \in 1..Len(self.output_connections) : self.output_connections[i].name # name
    /\ self' = [self EXCEPT !.output_connections =
                    Append(@, [name |-> name, origin |-> origin, to |-> to])]
    /\ UNCHANGED <<stratify_defaults, phase, raised, init_args, calls, rhs>>

InitAddFlow == Constructed(AddFlowArgs, TRUE)

NextAddFlow ==
    \/ \E a \in AddFlowCalls :
            AddedTransitionFlows(self) \cup AddedDeathFlows(self) = {} /\ Stratify(a)
    \/ AddTransitionFlow(Flow("standard_flows", waning, recovered, susceptible))
    \/ AddDeathFlow(Flow("compartment_death", infect_death, infectious, <<>>))
    \/ RegisterOutputConnection("recoveries", infectious, recovered)
    \/ RunModel
    \/ \E compartment_values \in StateVectors(Len(self.compartment_names)), time \in 0..MaxTime :
            EvalRHS(compartment_values, time, MaxEvals)

SpecAddFlow == InitAddFlow /\ [][NextAddFlow]_vars

(* ------------------------------------------------------------------ *)
(* births and universal deaths in a stratified model. The constructor  *)
(* of StratifiedModel does not pass birth_approach on, so the caller   *)
(* assigns the attribute; crude_birth_rate is among the parameters     *)
(* ------------------------------------------------------------------ *)
VitalArgs == BirthArgs(Rat(1, 10), "add_crude_birth_rate", <<>>)

VitalCalls ==
    {StratifyArgs(hiv, <<LStr(neg), LStr(pos)>>, <<>>),
     StratifyArgs(hiv, <<LStr(neg), LStr(pos)>>, <<infectious>>),
     StratifyArgs(loc, <<LStr(urban)>>, <<>>),
     StratifyArgs(age, <<LInt(5), LInt(15)>>, <<>>),
     [StratifyArgs(hiv, <<LStr(neg), LStr(pos)>>, <<>>) EXCEPT !.adjustment_requests =
        <<AdjustmentRequest(universal_death_rate, <<<<LStr(neg), R(2)>>, <<LStr(pos), R(3)>>>>,
                            FALSE, <<>>)>>],
     [StratifyArgs(hiv, <<LStr(neg), LStr(pos)>>, <<>>) EXCEPT !.adjustment_requests =
        <<AdjustmentRequest(universal_death_rate, <<<<LStr(neg), R(2)>>, <<LStr(pos), R(3)>>>>,
                            TRUE, <<LStr(pos)>>)>>]}

\* model.birth_approach = birth_approach
SetBirthApproach(birth_approach) ==
    /\ phase = "built"
    /\ self.birth_approach # birth_approach
    /\ self' = [self EXCEPT !.birth_approach = birth_approach]
    /\ UNCHANGED <<stratify_defaults, phase, raised, init_args, calls, rhs>>

InitVital == Constructed(VitalArgs, TRUE)

NextVital ==
    \/ \E a \in VitalCalls : Stratify(a)
    \/ SetBirthApproach(init_args.a.birth_approach)
    \/ RunModel
    \/ \E compartment_values \in StateVectors(Len(self.compartment_names)), time \in 0..MaxTime :
            EvalRHS(compartment_values, time, MaxEvals)

SpecVital == InitVital /\ [][NextVital]_vars

(* ------------------------------------------------------------------ *)
(* properties                                                          *)
(* ------------------------------------------------------------------ *)
\* the last stratify call made
LastCall == calls[Len(calls)]

\* the stratify set of a call: every compartment type when the argument is empty
StratifySet(c) ==
    IF Len(c.a.compartment_types_to_stratify) = 0 THEN Range(c.before.compartment_types)
    ELSE Range(c.a.compartment_types_to_stratify)

\* the strata of a call, as the call names them
StrataOf(c) == find_strata_names_from_input(prepared_strata_request(c.a))

\* the sum of the values of the compartments of w whose stem is stem
StemTotal(w, stem) ==
    RSum([i \in 1..Len(w.compartment_names) |->
            IF find_stem(w.compartment_names[i]) = stem THEN w.compartment_values[i] ELSE R(0)])

\* a flow of the object before call c that was active and has neither end in the stratify set
Untouched(c, f) ==
    /\ c.before.transition_flows[f].implement = Len(c.before.strata)
    /\ find_stem(c.before.transition_flows[f].origin) \notin StratifySet(c)
    /\ find_stem(c.before.transition_flows[f].to) \notin StratifySet(c)

\* C1: after a stratify call that stratifies neither end of a flow that was active,
\* no record is added for that flow and the next right-hand-side evaluation applies it
UnstratifiedFlowStaysApplied ==
    (rhs.ok /\ Len(calls) > 0) =>
        \A f \in 1..Len(LastCall.before.transition_flows) :
            Untouched(LastCall, f) =>
                /\ \A g \in (Len(LastCall.before.transition_flows) + 1)..Len(self.transition_flows) :
                        ~(/\ self.transition_flows[g].origin = self.transition_flows[f].origin
                          /\ self.transition_flows[g].to = self.transition_flows[f].to
                          /\ self.transition_flows[g].parameter = self.transition_flows[f].parameter)
                /\ InSeq(f, rhs.applied)

\* C2: after every stratify call that returns, each stem of the stratify set holds the
\* total it held just before the call
StratifyKeepsStemTotals ==
    (phase = "built" /\ Len(calls) > 0) =>
        \A stem \in StratifySet(LastCall) :
            StemTotal(self, stem) = StemTotal(LastCall.before, stem)

\* the layer components of a parameter name: its prefixes ending at a marker or at the end
ComponentsOf(parameter) ==
    {SubSeq(parameter, 1, n) : n \in XPositions(parameter) \cup {Len(parameter)}}

FlaggedComponents(w, parameter) ==
    {c \in ComponentsOf(parameter) : InSeq(c, w.overwrite_parameter)}

RegisteredComponents(w, parameter) ==
    {c \in ComponentsOf(parameter) : c \in (DOMAIN w.time_variants) \cup (DOMAIN w.parameters)}

\* what one component contributes: its time-variant at time if it has one, else its constant
ComponentValue(w, c, time) ==
    IF c \in DOMAIN w.time_variants THEN TimeVariantValue(w.time_variants[c], time)
    ELSE IF c \in DOMAIN w.parameters THEN w.parameters[c]
    ELSE R(1)

RECURSIVE ProductOver(_, _, _)
ProductOver(w, components, time) ==
    IF components = {} THEN R(1)
    ELSE LET c == CHOOSE x \in components : TRUE
         IN  RMul(ComponentValue(w, c, time), ProductOver(w, components \ {c}, time))

Deepest(components) == CHOOSE c \in components : \A d \in components : Len(d) <= Len(c)

\* C3: a parameter with a flagged (overwrite) component resolves to the value of its
\* deepest flagged component alone, constant or time-variant
OverwriteTruncates ==
    rhs.ok =>
        \A i \in 1..Len(rhs.resolved) :
            FlaggedComponents(self, rhs.resolved[i][1]) # {} =>
                rhs.resolved[i][2] =
                    ComponentValue(self, Deepest(FlaggedComponents(self, rhs.resolved[i][1])),
                                   rhs.time)

\* C4: a parameter with no flagged component resolves at time t to the product of its
\* constant components and of its time-variant components at t, a component that is
\* both counting once, as a time-variant
MultiplicativeComposition ==
    rhs.ok =>
        \A i \in 1..Len(rhs.resolved) :
            FlaggedComponents(self, rhs.resolved[i][1]) = {} =>
                rhs.resolved[i][2] =
                    ProductOver(self, ComponentsOf(rhs.resolved[i][1]), rhs.time)

\* an evaluation at a time past 0 resolved an unflagged parameter of two layers, one of
\* them registered both as a constant and as a time-variant
MultiplicativeCompositionWitness ==
    /\ rhs.ok
    /\ rhs.time > 0
    /\ \E i \in 1..Len(rhs.resolved) :
        /\ FlaggedComponents(self, rhs.resolved[i][1]) = {}
        /\ Cardinality(RegisteredComponents(self, rhs.resolved[i][1])) >= 2
        /\ \E c \in ComponentsOf(rhs.resolved[i][1]) :
                c \in (DOMAIN self.time_variants) \cap (DOMAIN self.parameters)
        /\ rhs.resolved[i][2] # R(1)

\* no births, no death flows, and no universal death rate given to the constructor
NoBirthsNoDeaths ==
    /\ self.birth_approach \notin {"add_crude_birth_rate", "replace_deaths"}
    /\ Len(self.death_flows) = 0
    /\ universal_death_rate \notin DOMAIN init_args.a.parameters

\* C5: without births and deaths the rate vector of an evaluation sums to zero
RatesSumToZero ==
    (rhs.ok /\ NoBirthsNoDeaths) => RSum(rhs.ode) = R(0)

\* an evaluation of a twice-stratified model without births and deaths applied flows and
\* returned a rate vector that is not all zero
RatesSumToZeroWitness ==
    /\ rhs.ok
    /\ NoBirthsNoDeaths
    /\ Len(self.strata) >= 2
    /\ Len(rhs.applied) >= 2
    /\ \E i \in 1..Len(rhs.ode) : ~RIsZero(rhs.ode[i])

\* the entry_fraction parameter of one stratum of a call
EntryFractionName(c, stratum) ==
    create_stratified_name(entry_fraction, c.a.stratification_name, stratum)

\* C6: after a stratify call that the argument checks let through and whose stratify set
\* holds the entry compartment, the entry fractions of its strata are registered and
\* sum to 1
EntryFractionsSumToOne ==
    (/\ Len(calls) > 0
     /\ LastCall.exc \notin {"ValueError", "TypeError"}
     /\ LastCall.before.entry_compartment \in StratifySet(LastCall)) =>
        /\ \A i \in 1..Len(StrataOf(LastCall)) :
                EntryFractionName(LastCall, StrataOf(LastCall)[i]) \in DOMAIN self.parameters
        /\ RSum([i \in 1..Len(StrataOf(LastCall)) |->
                    self.parameters[EntryFractionName(LastCall, StrataOf(LastCall)[i])]]) = R(1)

ageing0to5 == <<"a", "g", "e", "i", "n", "g", "0", "t", "o", "5">>
ageing5to15 == <<"a", "g", "e", "i", "n", "g", "5", "t", "o", "1", "5">>

\* the pairs <<name, a, b>> of the ageing parameters of an age call
AgeingPairs(c) ==
    {<<ageing \o PyStr(StrataOf(c)[i]) \o <<"t", "o">> \o PyStr(StrataOf(c)[i + 1]),
       StrataOf(c)[i].n, StrataOf(c)[i + 1].n>> : i \in 1..(Len(StrataOf(c)) - 1)}

\* C7: after an age stratification the ageing parameter of each pair of consecutive
\* breakpoints (a, b) is 1/(b - a), 1/5 and 1/10 for [0, 5, 15], and that is the value
\* every evaluation resolves for the ageing flows it applies
AgeingRates ==
    \A k \in 1..Len(calls) :
        (calls[k].a.stratification_name = age /\ calls[k].exc = "none") =>
            /\ \A pair \in AgeingPairs(calls[k]) :
                /\ pair[1] \in DOMAIN self.parameters
                /\ self.parameters[pair[1]] = Rat(1, pair[3] - pair[2])
                /\ rhs.ok =>
                    \A i \in 1..Len(rhs.resolved) :
                        rhs.resolved[i][1] = pair[1] =>
                            rhs.resolved[i][2] = Rat(1, pair[3] - pair[2])
            /\ calls[k].a.strata_request.list = <<LInt(5), LInt(15)>> =>
                /\ self.parameters[ageing0to5] = Rat(1, 5)
                /\ self.parameters[ageing5to15] = Rat(1, 10)

\* an evaluation after the age stratification with breakpoints [0, 5, 15] resolved
\* both ageing rates
AgeingRatesWitness ==
    /\ rhs.ok
    /\ \E k \in 1..Len(calls) :
        /\ calls[k].a.stratification_name = age
        /\ calls[k].exc = "none"
        /\ AgeingPairs(calls[k]) = {<<ageing0to5, 0, 5>>, <<ageing5to15, 5, 15>>}
    /\ \E i \in 1..Len(rhs.resolved) : rhs.resolved[i] = <<ageing0to5, Rat(1, 5)>>
    /\ \E i \in 1..Len(rhs.resolved) : rhs.resolved[i] = <<ageing5to15, Rat(1, 10)>>

\* the unstratified model of a run whose only stratify call is calls[1], ready to run
Unstratified == prepare_stratified_parameter_calculations(calls[1].before)

\* the state vector of the unstratified model: each parent holds its child's value
ParentVector ==
    [i \in 1..Len(Unstratified.compartment_names) |->
        RSum([j \in 1..Len(self.compartment_names) |->
                IF find_stem(self.compartment_names[j]) = Unstratified.compartment_names[i]
                THEN rhs.compartment_values[j] ELSE R(0)])]

\* C8: after one stratify call into a single stratum without adjustment requests, the
\* rate of every compartment is the rate the unstratified model gives its parent
SingleStratumIsIdentity ==
    (/\ rhs.ok
     /\ Len(calls) = 1
     /\ Len(StrataOf(calls[1])) = 1
     /\ Len(calls[1].a.adjustment_requests) = 0) =>
        /\ EOk(make_model_function(Unstratified, ParentVector, rhs.time))
        /\ \A j \in 1..Len(self.compartment_names) :
                rhs.ode[j] =
                    make_model_function(Unstratified, ParentVector, rhs.time).ode[
                        IndexOf(Unstratified.compartment_names,
                                find_stem(self.compartment_names[j]))]

\* the births the approach b prescribes for the last evaluation
BirthsOf(b) ==
    IF b = "add_crude_birth_rate"
    THEN RMul(self.parameters[crude_birth_rate], RSum(rhs.compartment_values))
    ELSE IF b = "replace_deaths" THEN rhs.deaths
    ELSE R(0)

\* C9: a StratifiedModel keeps the birth approach it was constructed with, and every
\* evaluation adds the births that approach prescribes
BirthApproachIsFixed ==
    init_args.stratified =>
        /\ self.birth_approach = init_args.a.birth_approach
        /\ rhs.ok => rhs.births = BirthsOf(init_args.a.birth_approach)

\* the universal deaths and the compartment deaths of the last evaluation, computed
\* from its state vector
DeathsOfEvaluation ==
    RAdd(RMul(get_parameter_value(self, universal_death_rate, rhs.time),
              RSum(rhs.compartment_values)),
         RSum([f \in 1..Len(self.death_flows) |->
                IF self.death_flows[f].implement = Len(self.strata)
                THEN RMul(get_parameter_value(self, self.death_flows[f].parameter, rhs.time),
                          rhs.compartment_values[IndexOf(self.compartment_names,
                                                         self.death_flows[f].origin)])
                ELSE R(0)]))

ConstructionRejectsBadArguments ==
    /\ (\/ ~InSeq(init_args.a.infectious_compartment, init_args.a.compartment_types)
        \/ init_args.a.birth_approach \notin available_birth_approaches \cup {default_birth_approach})
            => (phase = "failed" /\ calls = <<>> /\ rhs = NoRhs)
    /\ (/\ init_args.a.birth_approach = default_birth_approach
        /\ InSeq(init_args.a.infectious_compartment, init_args.a.compartment_types)
        /\ IsSorted(init_args.a.times))
            => (calls = <<>> /\ rhs = NoRhs => phase = "built")

\* C12: construction with unsorted times completes and leaves the times sorted ascending
UnsortedTimesAreSorted ==
    ~IsSorted(init_args.a.times) =>
        /\ ~(phase = "failed" /\ calls = <<>> /\ rhs = NoRhs)
        /\ self.times = SortedSeq(Range(init_args.a.times))

\* the call names a stem that is not one of the model's compartment types
NamesMissingStem(c) ==
    \E j \in 1..Len(c.a.compartment_types_to_stratify) :
        ~InSeq(c.a.compartment_types_to_stratify[j], c.before.compartment_types)

\* nothing but the compartment subset can make the checks of the call raise
OtherChecksPass(c) ==
    /\ c.a.stratification_name # age
    /\ ~check_parameter_adjustment_requests_raises(
            c.a.adjustment_requests, find_strata_names_from_input(c.a.strata_request))

\* C13: every stratify call, the first as well as a later one, whose subset names a stem
\* that is not a compartment type raises ValueError, and a call whose non-empty subset
\* names existing stems only does not, whatever the subsets of the calls before it
CompartmentRequestIsChecked ==
    \A i \in 1..Len(calls) :
        /\ NamesMissingStem(calls[i]) => calls[i].exc = "ValueError"
        /\ (/\ calls[i].a.compartment_types_to_stratify # <<>>
            /\ ~NamesMissingStem(calls[i])
            /\ OtherChecksPass(calls[i])) => calls[i].exc # "ValueError"

\* an adjustment request of the call names a stratum that is not one of the strata requested
NamesMissingStratum(c) ==
    \E p \in 1..Len(c.a.adjustment_requests) :
        \E k \in 1..Len(c.a.adjustment_requests[p].adjustments) :
            ~PyIn(c.a.adjustment_requests[p].adjustments[k][1], c.a.strata_request.list)

\* C14: a stratify call whose adjustment request names a stratum outside the requested
\* strata completes without raising
MissingStratumIsNotFatal ==
    \A i \in 1..Len(calls) :
        (calls[i].a.stratification_name # age /\ NamesMissingStratum(calls[i]))
            => calls[i].exc = "none"

\* C15: a flow added with add_transition_flow or add_death_flow after k stratify calls
\* carries implement = k, and the next right-hand-side evaluation applies it
AddedFlowIsActive ==
    /\ \A f \in AddedTransitionFlows(self) :
            /\ self.transition_flows[f].implement = Len(self.strata)
            /\ rhs.ok => InSeq(f, rhs.applied)
    /\ \A f \in AddedDeathFlows(self) :
            /\ self.death_flows[f].implement = Len(self.strata)
            /\ rhs.ok => \E r \in 1..Len(rhs.resolved) : rhs.resolved[r][1] = infect_death

\* the positions of name in the compartment names of w
PositionsOf(w, name) ==
    {i \in 1..Len(w.compartment_names) : w.compartment_names[i] = name}

\* the compartments of the object before call c whose stem is in the stratify set of c
ParentsOf(c) ==
    {p \in 1..Len(c.before.compartment_names) :
        find_stem(c.before.compartment_names[p]) \in StratifySet(c)}

ChildName(parent, stratification_name, stratum) ==
    parent \o <<"X">> \o stratification_name \o <<"_">> \o PyStr(stratum)

\* C16: no two compartments share a name and there are as many values as names, in every
\* state; after a stratify call that returned, each compartment whose stem is in the
\* stratify set is gone and has exactly one child per stratum, named
\* parent + "X" + stratification name + "_" + stratum, there are no other new compartments,
\* and every other compartment has kept its name and its value
CompartmentsAreReplaced ==
    /\ Len(self.compartment_names) = Len(self.compartment_values)
    /\ \A i, j \in 1..Len(self.compartment_names) :
            self.compartment_names[i] = self.compartment_names[j] => i = j
    /\ (Len(calls) > 0 /\ LastCall.exc = "none") =>
            /\ \A p \in ParentsOf(LastCall) :
                    /\ PositionsOf(self, LastCall.before.compartment_names[p]) = {}
                    /\ \A s \in 1..Len(StrataOf(LastCall)) :
                            Cardinality(PositionsOf(self,
                                ChildName(LastCall.before.compartment_names[p],
                                          LastCall.a.stratification_name,
                                          StrataOf(LastCall)[s]))) = 1
            /\ \A p \in (1..Len(LastCall.before.compartment_names)) \ ParentsOf(LastCall) :
                    \E i \in PositionsOf(self, LastCall.before.compartment_names[p]) :
                        self.compartment_values[i] = LastCall.before.compartment_values[p]
            /\ Len(self.compartment_names) =
                    Len(LastCall.before.compartment_names)
                    + Cardinality(ParentsOf(LastCall)) * (Len(StrataOf(LastCall)) - 1)

\* a second stratify call has returned that split some compartments in two and kept others
CompartmentsAreReplacedWitness ==
    /\ Len(calls) = 2
    /\ LastCall.exc = "none"
    /\ Len(StrataOf(LastCall)) = 2
    /\ ParentsOf(LastCall) # {}
    /\ ParentsOf(LastCall) # 1..Len(LastCall.before.compartment_names)
    /\ Len(LastCall.before.compartment_names) > Len(LastCall.before.compartment_types)

\* a flow of the object before call c that was active, whose destination stem is in the
\* stratify set and whose origin stem is not, and for whose parameter c requests nothing
SplitsDestinationOnly(c, f) ==
    /\ c.before.transition_flows[f].implement = Len(c.before.strata)
    /\ find_stem(c.before.transition_flows[f].to) \in StratifySet(c)
    /\ find_stem(c.before.transition_flows[f].origin) \notin StratifySet(c)
    /\ \A p \in 1..Len(c.a.adjustment_requests) :
            c.a.adjustment_requests[p].parameter # c.before.transition_flows[f].parameter

\* C17: after a stratify call, every flow that was active and has its destination stem
\* alone in the stratify set, with no adjustment request, has one new flow per stratum at
\* the new depth, from the same origin to the stratum's child of the destination, at a
\* parameter synthesized for the stratum whose value is 1 / (number of strata)
DestinationSplitsEqually ==
    Len(calls) > 0 =>
        \A f \in 1..Len(LastCall.before.transition_flows) :
            SplitsDestinationOnly(LastCall, f) =>
                \A s \in 1..Len(StrataOf(LastCall)) :
                    LET old == LastCall.before.transition_flows[f]
                        name == ChildName(old.parameter, LastCall.a.stratification_name,
                                          StrataOf(LastCall)[s])
                    IN  /\ name \in DOMAIN self.parameters
                        /\ self.parameters[name] = Rat(1, Len(StrataOf(LastCall)))
                        /\ Cardinality({g \in 1..Len(self.transition_flows) :
                                /\ self.transition_flows[g].implement = Len(LastCall.before.strata) + 1
                                /\ self.transition_flows[g].parameter = name
                                /\ self.transition_flows[g].origin = old.origin
                                /\ self.transition_flows[g].to =
                                        ChildName(old.to, LastCall.a.stratification_name,
                                                  StrataOf(LastCall)[s])}) = 1

\* the death flows of the object before call c that were active
ActiveDeathFlows(c) ==
    {f \in 1..Len(c.before.death_flows) :
        c.before.death_flows[f].implement = Len(c.before.strata)}

\* the death flows of self at the current depth whose origin is name
DeathFlowsFrom(name) ==
    {g \in 1..Len(self.death_flows) :
        /\ self.death_flows[g].implement = Len(self.strata)
        /\ self.death_flows[g].origin = name}

\* C18: after a stratify call that returned, an active death flow whose origin stem is in
\* the stratify set has one copy per stratum from the stratum's child of its origin; a death
\* flow whose origin stem is not in the stratify set has no such copies, is still active
\* from its unstratified origin, and is applied by the right-hand-side evaluation
DeathFlowFollowsItsOrigin ==
    (Len(calls) > 0 /\ LastCall.exc = "none") =>
        \A f \in ActiveDeathFlows(LastCall) :
            LET old == LastCall.before.death_flows[f]
            IN  IF find_stem(old.origin) \in StratifySet(LastCall)
                THEN \A s \in 1..Len(StrataOf(LastCall)) :
                        Cardinality(DeathFlowsFrom(
                            ChildName(old.origin, LastCall.a.stratification_name,
                                      StrataOf(LastCall)[s]))) = 1
                ELSE /\ \A s \in 1..Len(StrataOf(LastCall)) :
                            DeathFlowsFrom(ChildName(old.origin, LastCall.a.stratification_name,
                                                     StrataOf(LastCall)[s])) = {}
                     /\ DeathFlowsFrom(old.origin) # {}
                     /\ rhs.ok =>
                            \E r \in 1..Len(rhs.resolved) : rhs.resolved[r][1] = old.parameter

\* the parents of call c that held something to share out
FilledParentsOf(c) ==
    {p \in ParentsOf(c) : ~RIsZero(c.before.compartment_values[p])}

\* the share of a parent's value that call c gave to the parent's child for stratum
StartingProportion(c, stratum) ==
    LET p == CHOOSE q \in FilledParentsOf(c) : TRUE
        child == CHOOSE i \in PositionsOf(self,
                    ChildName(c.before.compartment_names[p], c.a.stratification_name, stratum)) : TRUE
    IN  RDiv(self.compartment_values[child], c.before.compartment_values[p])

\* C19: after a stratify call other than by age that returned and whose stratify set holds
\* the entry compartment, the entry fraction registered for each stratum is the share of
\* the starting population the call gave to that stratum
EntryFractionIsStartingProportion ==
    (/\ Len(calls) > 0
     /\ LastCall.exc = "none"
     /\ LastCall.a.stratification_name # age
     /\ LastCall.before.entry_compartment \in StratifySet(LastCall)
     /\ FilledParentsOf(LastCall) # {}) =>
        \A s \in 1..Len(StrataOf(LastCall)) :
            LET name == ChildName(entry_fraction, LastCall.a.stratification_name,
                                  StrataOf(LastCall)[s])
            IN  /\ name \in DOMAIN self.parameters
                /\ self.parameters[name] = StartingProportion(LastCall, StrataOf(LastCall)[s])

\* call c asks for a stratification by age that was made before, or names a compartment
\* subset, or gives a breakpoint that is not a number
AgeRequestIsBad(c) ==
    /\ c.a.stratification_name = age
    /\ \/ InSeq(age, c.before.strata)
       \/ c.a.compartment_types_to_stratify # <<>>
       \/ \E k \in 1..Len(c.a.strata_request.list) : c.a.strata_request.list[k].t = "str"

\* C20: a stratify call by age made when age has been applied already, or with a non-empty
\* compartment subset, or with a non-numeric breakpoint, raises ValueError and leaves the
\* depth, the compartments and the flows as they were
BadAgeRequestIsRejected ==
    \A i \in 1..Len(calls) :
        AgeRequestIsBad(calls[i]) =>
            /\ calls[i].exc = "ValueError"
            /\ i = Len(calls)
            /\ self.strata = calls[i].before.strata
            /\ self.compartment_names = calls[i].before.compartment_names
            /\ self.compartment_values = calls[i].before.compartment_values
            /\ self.transition_flows = calls[i].before.transition_flows
            /\ self.death_flows = calls[i].before.death_flows

\* a second stratification by age was asked for after the first had returned
BadAgeRequestIsRejectedWitness ==
    /\ Len(calls) = 2
    /\ calls[1].a.stratification_name = age
    /\ calls[1].exc = "none"
    /\ AgeRequestIsBad(calls[2])
    /\ calls[2].a.compartment_types_to_stratify = <<>>
    /\ \A k \in 1..Len(calls[2].a.strata_request.list) : calls[2].a.strata_request.list[k].t = "int"
    /\ Len(self.strata) = 1

\* the object as stratify call k left it
After(k) == IF k = Len(calls) THEN self ELSE calls[k + 1].before

\* the breakpoints of an age call: those requested and 0, ascending
Breakpoints(c) ==
    SortedSeq({c.a.strata_request.list[i].n : i \in 1..Len(c.a.strata_request.list)} \cup {0})

\* the flows of w that carry an ageing parameter
AgeingFlows(w) ==
    {g \in 1..Len(w.transition_flows) : StartsWith(w.transition_flows[g].parameter, ageing)}

\* C21: after an age stratification that returned, the strata are the requested breakpoints
\* and 0 in ascending order; for each consecutive pair (a, b) and each compartment that
\* existed before the call exactly one flow goes from the compartment's child for a to its
\* child for b, it is at the new depth, both children are compartments, and there are no
\* other ageing flows than these
AgeingFlowsAreInserted ==
    \A k \in 1..Len(calls) :
        (calls[k].a.stratification_name = age /\ calls[k].exc = "none") =>
            LET c == calls[k]
                w == After(k)
                b == Breakpoints(c)
            IN  /\ \A p \in 1..Len(c.before.compartment_names) :
                    \A i \in 1..Len(b) :
                        InSeq(ChildName(c.before.compartment_names[p], age, LInt(b[i])),
                              w.compartment_names)
                /\ \A p \in 1..Len(c.before.compartment_names) :
                    \A i \in 1..(Len(b) - 1) :
                        LET from == ChildName(c.before.compartment_names[p], age, LInt(b[i]))
                            to == ChildName(c.before.compartment_names[p], age, LInt(b[i + 1]))
                            found == {g \in 1..Len(w.transition_flows) :
                                        /\ w.transition_flows[g].origin = from
                                        /\ w.transition_flows[g].to = to}
                        IN  /\ Cardinality(found) = 1
                            /\ \A g \in found :
                                    /\ w.transition_flows[g].implement = Len(c.before.strata) + 1
                                    /\ g \in AgeingFlows(w)
                            /\ InSeq(from, w.compartment_names)
                            /\ InSeq(to, w.compartment_names)
                /\ Cardinality(AgeingFlows(w)) = (Len(b) - 1) * Len(c.before.compartment_names)

\* a model already stratified was stratified by age with the breakpoints given in
\* descending order and without 0
AgeingFlowsAreInsertedWitness ==
    /\ Len(calls) = 2
    /\ calls[2].a.stratification_name = age
    /\ calls[2].exc = "none"
    /\ calls[2].a.strata_request.list = <<LInt(15), LInt(5)>>
    /\ Len(calls[2].before.compartment_names) > Len(self.compartment_types)
    /\ Cardinality(AgeingFlows(self)) = 2 * Len(calls[2].before.compartment_names)

\* the layers of a compartment name: each "X" with the text up to the next "X"
LayersOf(name) ==
    {SubSeq(name, x + 1,
            IF \E y \in XPositions(name) : y > x
            THEN CHOOSE y \in XPositions(name) :
                    y > x /\ \A z \in XPositions(name) : z > x => y <= z
            ELSE Len(name)) : x \in XPositions(name)}

\* the multipliers of w recorded for a stratum the compartment belongs to
RecordedFor(w, name) ==
    {i \in 1..Len(w.infectiousness_adjustments) :
        w.infectiousness_adjustments[i][1] \in LayersOf(name)}

Weight(w, name) ==
    IF RecordedFor(w, name) = {} THEN R(1)
    ELSE w.infectiousness_adjustments[CHOOSE i \in RecordedFor(w, name) : TRUE][2]

\* C22: the infectious population an evaluation tracks is the sum over the compartments
\* with the infectious stem of value times weight, the weight being the multiplier
\* recorded for the compartment's own stratum and 1 when none is recorded for it
InfectiousPopulationIsWeighted ==
    (/\ rhs.ok
     /\ "infectious_population" \in DOMAIN self.tracked_quantities
     /\ \A i \in 1..Len(self.compartment_names) :
            Cardinality(RecordedFor(self, self.compartment_names[i])) <= 1) =>
        self.tracked_quantities["infectious_population"] =
            RSum([i \in 1..Len(self.compartment_names) |->
                    IF find_stem(self.compartment_names[i]) = self.infectious_compartment
                    THEN RMul(rhs.compartment_values[i], Weight(self, self.compartment_names[i]))
                    ELSE R(0)])

IsPrefix(s, t) == Len(s) <= Len(t) /\ SubSeq(t, 1, Len(s)) = s

\* C23: every step, a stratify call or a right-hand-side evaluation, leaves each record
\* of the transition flows and of the death flows in its place and as it was; records
\* are added at the end only
FlowsAreAppendOnly ==
    [][/\ IsPrefix(self.transition_flows, self'.transition_flows)
       /\ IsPrefix(self.death_flows, self'.death_flows)]_vars

\* a stratify call added transition and death flows and an evaluation followed
FlowsAreAppendOnlyWitness ==
    /\ rhs.ok
    /\ Len(calls) > 0
    /\ Len(LastCall.before.transition_flows) > 0
    /\ Len(self.transition_flows) > Len(LastCall.before.transition_flows)
    /\ Len(LastCall.before.death_flows) > 0
    /\ Len(self.death_flows) > Len(LastCall.before.death_flows)

\* the net flow of the k-th transition flow the last evaluation applied
NetFlowOf(k) ==
    LET flow == self.transition_flows[rhs.applied[k]]
    IN  RMul(RMul(rhs.resolved[k][2],
                  rhs.compartment_values[IndexOf(self.compartment_names, flow.origin)]),
             IF flow.type = "standard_flows" THEN R(1)
             ELSE self.tracked_quantities["infectious_population"])

\* C24: once an output connection is registered, an evaluation completes, there are as
\* many points in each connected series as in the times series, and the point added last
\* is the sum of the net flows of the flows applied whose origin and destination match
\* the connection
DerivedOutputsAreRecorded ==
    (Len(self.output_connections) > 0 /\ rhs.compartment_values # <<>>) =>
        /\ rhs.ok
        /\ Len(self.derived_outputs.times) > 0
        /\ \A c \in 1..Len(self.output_connections) :
                \E i \in 1..Len(self.derived_outputs.series) :
                    /\ self.derived_outputs.series[i][1] = self.output_connections[c].name
                    /\ Len(self.derived_outputs.series[i][2]) = Len(self.derived_outputs.times)
                    /\ self.derived_outputs.series[i][2][Len(self.derived_outputs.times)] =
                            RSum([k \in 1..Len(rhs.applied) |->
                                IF /\ Contains(self.transition_flows[rhs.applied[k]].origin,
                                               self.output_connections[c].origin)
                                   /\ Contains(self.transition_flows[rhs.applied[k]].to,
                                               self.output_connections[c].to)
                                THEN NetFlowOf(k) ELSE R(0)])

\* the rates the last evaluation would have returned had there been no births
RatesWithoutBirths ==
    make_model_function([self EXCEPT !.birth_approach = default_birth_approach],
                        rhs.compartment_values, rhs.time).ode

\* the births the last evaluation gave to compartment i
BirthShare(i) == RSub(rhs.ode[i], RatesWithoutBirths[i])

\* the layer of name that starts at the "X" at position x (0-based)
LayerAt(name, x) ==
    SubSeq(name, x + 1,
           IF \E y \in XPositions(name) : y > x
           THEN CHOOSE y \in XPositions(name) :
                    y > x /\ \A z \in XPositions(name) : z > x => y <= z
           ELSE Len(name))

\* the product of the entry fractions of the layers of a compartment name that start at
\* the positions xs
RECURSIVE EntryFractionOver(_, _)
EntryFractionOver(name, xs) ==
    IF xs = {} THEN R(1)
    ELSE LET x == CHOOSE y \in xs : TRUE
         IN  RMul(self.parameters[entry_fraction \o LayerAt(name, x)],
                  EntryFractionOver(name, xs \ {x}))

\* C25: in every evaluation of a stratified model each compartment with the entry stem
\* receives the total births times the product of the entry fractions of the layers of
\* its name, every other compartment receives none, and the shares sum to the total births
BirthsAreSplit ==
    (rhs.ok /\ self.stratified) =>
        /\ \A i \in 1..Len(self.compartment_names) :
                BirthShare(i) =
                    IF find_stem(self.compartment_names[i]) = self.entry_compartment
                    THEN RMul(BirthsOf(self.birth_approach),
                              EntryFractionOver(self.compartment_names[i],
                                                XPositions(self.compartment_names[i])))
                    ELSE R(0)
        /\ RSum([i \in 1..Len(self.compartment_names) |-> BirthShare(i)])
                = BirthsOf(self.birth_approach)
        /\ rhs.births = BirthsOf(self.birth_approach)

\* births were split over the entry compartments of a model stratified twice, one of the
\* stratifications being by age
BirthsAreSplitWitness ==
    /\ rhs.ok
    /\ self.stratified
    /\ Len(self.strata) = 2
    /\ InSeq(age, self.strata)
    /\ RGt(rhs.births, R(0))
    /\ \E i, j \in 1..Len(self.compartment_names) :
            /\ RGt(BirthShare(i), R(0))
            /\ RGt(BirthShare(j), R(0))
            /\ i # j
    /\ \E i \in 1..Len(self.compartment_names) :
            /\ find_stem(self.compartment_names[i]) = self.entry_compartment
            /\ BirthShare(i) = R(0)

\* the requests of call c for the universal death rate
UniversalDeathRequests(c) ==
    {p \in 1..Len(c.a.adjustment_requests) :
        c.a.adjustment_requests[p].parameter = universal_death_rate}

\* the universal death rate request r prescribes for a compartment: the base rate times
\* the multiplier of the compartment's stratum, the multiplier itself when the stratum is
\* listed under overwrite, the base rate when the request does not name the stratum
StratumDeathRate(c, r, name) ==
    LET named == {k \in 1..Len(r.adjustments) :
                    ChildName(<<>>, c.a.stratification_name, r.adjustments[k][1]) \in LayersOf(name)}
        base == c.before.parameters[universal_death_rate]
    IN  IF named = {} THEN base
        ELSE LET k == CHOOSE j \in named : TRUE
             IN  IF r.has_overwrite /\ PyIn(r.adjustments[k][1], r.overwrite)
                 THEN r.adjustments[k][2]
                 ELSE RMul(base, r.adjustments[k][2])

\* C26: after one stratify call with an adjustment request for universal_death_rate, an
\* evaluation of the model, which has no flows and no births, takes from each compartment
\* its value times the rate adjusted for the compartment's stratum
UniversalDeathRateIsAdjusted ==
    (/\ rhs.ok
     /\ Len(calls) = 1
     /\ UniversalDeathRequests(LastCall) # {}
     /\ self.birth_approach = default_birth_approach
     /\ Len(self.transition_flows) = 0
     /\ Len(self.death_flows) = 0) =>
        \A p \in UniversalDeathRequests(LastCall) :
            \A i \in 1..Len(self.compartment_names) :
                rhs.ode[i] =
                    RSub(R(0),
                         RMul(StratumDeathRate(LastCall, LastCall.a.adjustment_requests[p],
                                               self.compartment_names[i]),
                              rhs.compartment_values[i]))

\* C27: a stratify call that raised ValueError for its compartment subset, for the strata
\* of its adjustment requests or for its infectiousness multipliers has left the depth,
\* the compartments, the flows and the parameters as they were before the call
RejectedCallChangesNothing ==
    (/\ Len(calls) > 0
     /\ LastCall.exc = "ValueError"
     /\ LastCall.a.stratification_name # age) =>
        /\ self.strata = LastCall.before.strata
        /\ self.compartment_names = LastCall.before.compartment_names
        /\ self.compartment_values = LastCall.before.compartment_values
        /\ self.transition_flows = LastCall.before.transition_flows
        /\ self.death_flows = LastCall.before.death_flows
        /\ self.parameters = LastCall.before.parameters

\* every stratify call made so far has returned
AllCallsReturned == \A k \in 1..Len(calls) : calls[k].exc = "none"

\* the active transition flows of self have both ends among the compartments
ActiveTransitionFlowsAreNamed ==
    \A f \in 1..Len(self.transition_flows) :
        self.transition_flows[f].implement = Len(self.strata) =>
            /\ InSeq(self.transition_flows[f].origin, self.compartment_names)
            /\ InSeq(self.transition_flows[f].to, self.compartment_names)

\* C28: while every stratify call has returned, each active transition flow has its origin
\* and its destination, and each active death flow its origin, among the compartments, and
\* no evaluation ends with the ValueError of a compartment that is not found
ActiveFlowsAreNamed ==
    AllCallsReturned =>
        /\ ActiveTransitionFlowsAreNamed
        /\ \A f \in 1..Len(self.death_flows) :
                self.death_flows[f].implement = Len(self.strata) =>
                    InSeq(self.death_flows[f].origin, self.compartment_names)
        /\ rhs.compartment_values # <<>> => raised # "ValueError"

\* the total of the initial values requested of the constructor
RequestedTotal ==
    RSum([i \in 1..Len(init_args.a.compartment_types) |->
            IF init_args.a.compartment_types[i] \in DOMAIN init_args.a.initial_conditions
            THEN init_args.a.initial_conditions[init_args.a.compartment_types[i]] ELSE R(0)])

\* C29: a model constructed with sorted times and initial_conditions_to_total has raised
\* ValueError when the requested values exceed the starting population, and otherwise has
\* compartment values that sum to the starting population
InitialValuesSumToTotal ==
    (/\ IsSorted(init_args.a.times)
     /\ init_args.a.initial_conditions_to_total) =>
        IF RGt(RequestedTotal, init_args.a.starting_population)
        THEN phase = "failed" /\ raised = "ValueError" /\ rhs = NoRhs
        ELSE RSum(self.compartment_values) = init_args.a.starting_population

\* no adjustment request of the last call is keyed by the stem of parameter
StemIsNotRequested(parameter) ==
    \A i \in 1..Len(LastCall.a.adjustment_requests) :
        find_stem(parameter) # LastCall.a.adjustment_requests[i].parameter

\* C30: after a stratify call that returned, a flow whose parameter has a stem that no
\* adjustment request of the call is keyed by has received, for no stratum, a parameter
\* value or an overwrite flag under its stratified parameter name
OnlyTheStemIsAdjusted ==
    (Len(calls) > 0 /\ LastCall.exc = "none") =>
        \A f \in 1..Len(LastCall.before.transition_flows) :
            StemIsNotRequested(LastCall.before.transition_flows[f].parameter) =>
                \A k \in 1..Len(LastCall.a.strata_request.list) :
                    LET nm == create_stratified_name(LastCall.before.transition_flows[f].parameter,
                                                     LastCall.a.stratification_name,
                                                     LastCall.a.strata_request.list[k])
                    IN  /\ nm \in DOMAIN self.parameters => nm \in DOMAIN LastCall.before.parameters
                        /\ InSeq(nm, self.overwrite_parameter) =>
                                InSeq(nm, LastCall.before.overwrite_parameter)

====
